---------------------------- MODULE Spec2Model ----------------------------
(***************************************************************************)
(* A model of openapi-mcp-server: the ToolGenerator (src/tool-generator.ts) *)
(* that turns an OpenAPI document into tool definitions, and the APIClient  *)
(* (api-client.ts) that executes one operation as an HTTP exchange.         *)
(*                                                                          *)
(* Conventions.                                                             *)
(*  - A JavaScript string that the code takes apart (a "$ref", a path       *)
(*    template, an argument string, a description) is a sequence of text    *)
(*    fragments; fragments are single characters wherever the code works    *)
(*    character by character.  A string that is only compared or used as a  *)
(*    key (a type, a format, a property name) is a TLA+ string.             *)
(*  - An optional field is a sequence of length 0 (absent) or 1 (present);  *)
(*    a string field the code tests for truthiness is "" or <<>> when        *)
(*    absent, which JavaScript treats like the empty string.                *)
(*  - A thrown exception is a value: the operators return a record that     *)
(*    says whether the call threw.                                          *)
(*  - ToolGenerator.referenceCache only memoizes resolveReference over the  *)
(*    document of the current pass (generateTools clears it first), so a    *)
(*    cached lookup and a walk return the same node; the cache is not       *)
(*    carried in the state.                                                 *)
(***************************************************************************)
EXTENDS Integers, Sequences, FiniteSets, TLC

VARIABLES
    schema,           \* the loaded OpenAPI document (ToolGenerator.schema / APIClient.schema)
    pc,               \* position of the scenario: what has been called so far
    tools,            \* the Tool[] returned by generateTools
    genThrown,        \* TRUE when generateTools ended by an exception (RangeError)
    toolMetadata,     \* ToolGenerator.toolMetadata
    resolutionStack,  \* ToolGenerator.resolutionStack after the call
    options,          \* ServerOptions of the APIClient
    baseUrl,          \* APIClient.baseUrl
    operations,       \* APIClient.operations: the catalog built by initialize
    call,             \* the executeOperation call under way: operationId, args
    fs,               \* the file system seen by fs.existsSync / fs.statSync
    remote,           \* how the HTTP client answers the next request
    requests,         \* the requests handed to the HTTP client, in order
    outcome,          \* what executeOperation returned or threw
    frames            \* the executeOperation calls that run concurrently: the
                      \* locals and the position of each

vars == <<schema, pc, tools, genThrown, toolMetadata, resolutionStack, options, baseUrl,
          operations, call, fs, remote, requests, outcome, frames>>

-----------------------------------------------------------------------------
(* Bounds of the model. *)

\* Largest number of branches of a oneOf / anyOf / allOf in the documents tried.
MaxBranches == 2

\* The most content types one request body declares.
MaxContentTypes == 3

-----------------------------------------------------------------------------
(* Sequence helpers. *)

RECURSIVE Concat(_)
\* The strings of a sequence joined into one TLA+ string.
Concat(ss) == IF ss = <<>> THEN "" ELSE Head(ss) \o Concat(Tail(ss))

RECURSIVE Flatten(_)
Flatten(seqs) == IF seqs = <<>> THEN <<>> ELSE Head(seqs) \o Flatten(Tail(seqs))

RECURSIVE JoinWith(_, _)
\* Array.prototype.join: the members (fragment sequences) separated by sep.
JoinWith(seqs, sep) ==
    IF seqs = <<>> THEN <<>>
    ELSE IF Len(seqs) = 1 THEN seqs[1]
    ELSE seqs[1] \o sep \o JoinWith(Tail(seqs), sep)

RECURSIVE SplitOn(_, _, _)
\* String.prototype.split(sep) on a fragment sequence: the pieces between the
\* fragments equal to sep, each piece a fragment sequence.  cur is the piece
\* being read.
SplitOn(s, sep, cur) ==
    IF s = <<>> THEN <<cur>>
    ELSE IF Head(s) = sep THEN <<cur>> \o SplitOn(Tail(s), sep, <<>>)
    ELSE SplitOn(Tail(s), sep, Append(cur, Head(s)))

\* text.includes(needle), for a needle that is one fragment of the text.
Includes(text, needle) == \E i \in DOMAIN text : text[i] = needle

SeqToSet(s) == { s[i] : i \in DOMAIN s }

-----------------------------------------------------------------------------
(* Schema nodes: OpenAPIV3.SchemaObject | ReferenceObject, and ResolvedSchema. *)

\* A node with no key at all ({}).  ref is the "$ref" of a ReferenceObject.
Blank ==
    [ ref |-> <<>>, type |-> "", description |-> <<>>, example |-> <<>>,
      default |-> <<>>, minimum |-> <<>>, maximum |-> <<>>, minLength |-> <<>>,
      maxLength |-> <<>>, pattern |-> "", format |-> "", nullable |-> FALSE,
      enum |-> <<>>, properties |-> <<>>, additionalProperties |-> <<>>,
      items |-> <<>>, required |-> <<>>, oneOf |-> <<>>, anyOf |-> <<>>,
      allOf |-> <<>> ]

\* '$ref' in schema
HasRef(s) == s.ref # <<>>

\* additionalProperties: boolean | schema
APBool(b) == [b |-> b, isBool |-> TRUE, s |-> <<>>]
APSchema(n) == [b |-> FALSE, isBool |-> FALSE, s |-> <<n>>]

\* One entry of a properties object, in Object.entries order.
Prop(k, n) == [key |-> k, schema |-> n]

-----------------------------------------------------------------------------
(* ToolGenerator.resolveReference *)

\* current[part] while walking the document: the root holds components,
\* components holds schemas, schemas holds the named definitions.  The
\* documents of this model hold nothing else that a reference names.
Child(doc, cur, part) ==
    CASE cur.lvl = "root" /\ part = "components" /\ doc.hasComponents
            -> [lvl |-> "components", node |-> Blank]
      [] cur.lvl = "components" /\ part = "schemas"
            -> [lvl |-> "schemas", node |-> Blank]
      [] cur.lvl = "schemas" /\ (\E i \in DOMAIN doc.schemas : doc.schemas[i].key = part)
            -> [lvl |-> "node",
                node |-> doc.schemas[CHOOSE i \in DOMAIN doc.schemas :
                                        doc.schemas[i].key = part].schema]
      [] OTHER -> [lvl |-> "undefined", node |-> Blank]

RECURSIVE WalkRef(_, _, _, _)
\* The for loop of resolveReference from index i (1-based here, refParts[0]
\* is parts[1]): undefined as soon as current is undefined before a step.
WalkRef(doc, parts, i, cur) ==
    IF i > Len(parts) THEN cur
    ELSE IF cur.lvl = "undefined" THEN cur
    ELSE WalkRef(doc, parts, i + 1, Child(doc, cur, Concat(parts[i])))

\* resolveReference(ref): <<node>> or <<>> for undefined.
resolveReference(doc, ref) ==
    LET refParts == SplitOn(ref, "/", <<>>)
    IN  IF Concat(refParts[1]) = "#"
        THEN LET current == WalkRef(doc, refParts, 2, [lvl |-> "root", node |-> Blank])
             IN  IF current.lvl # "undefined" THEN <<current.node>> ELSE <<>>
        ELSE <<>>

-----------------------------------------------------------------------------
(* ToolGenerator.isFileUploadSchema *)

RECURSIVE isFileUploadSchemaFrom(_, _, _)
\* The code recurses on the target of a reference with no record of where it
\* has been.  followed is kept by the model only: when the reference at hand
\* was already followed by this call, the same call repeats for ever and the
\* JavaScript engine ends it with a RangeError (call stack exhausted).
isFileUploadSchemaFrom(doc, s, followed) ==
    IF HasRef(s)
    THEN IF s.ref \in followed THEN "RangeError"
         ELSE LET resolved == resolveReference(doc, s.ref)
              IN  IF resolved # <<>>
                  THEN isFileUploadSchemaFrom(doc, resolved[1], followed \cup {s.ref})
                  ELSE "false"
    ELSE IF s.format = "binary" THEN "true"
    ELSE IF s.type = "array"
            /\ s.items # <<>>
            /\ s.items[1].format = "binary" THEN "true"
    ELSE "false"

\* "true", "false", or "RangeError" when the call never returns.
isFileUploadSchema(doc, s) == isFileUploadSchemaFrom(doc, s, {})

-----------------------------------------------------------------------------
(* ToolGenerator.transformFileUploadSchema *)

\* A transformation that forgets the array case.
transformScalarOnly(s, fieldName) ==
    IF s.format = "binary"
    THEN [Blank EXCEPT
            !.type = "string",
            !.description = <<"Absolute ", "file path", " to upload. ">> \o s.description]
    ELSE s

transformFileUploadSchema(s, fieldName) ==
    IF s.type = "array" /\ s.items # <<>> /\ s.items[1].format = "binary"
    THEN [Blank EXCEPT
            !.type = "array",
            !.items = <<[Blank EXCEPT !.type = "string",
                           !.description = <<"Absolute ", "file path", " to upload">>]>>,
            !.description = <<"Array of ", "file path", "s to upload. ">> \o s.description]
    ELSE IF s.format = "binary"
    THEN [Blank EXCEPT
            !.type = "string",
            !.description = <<"Absolute ", "file path", " to upload. ">> \o s.description]
    ELSE s

-----------------------------------------------------------------------------
(* ToolGenerator.resolveSchema *)

\* A call that returned val, leaving the in-flight set as it found it.
Returned(val, stack) == [thrown |-> FALSE, val |-> val, stack |-> stack]

\* A call ended by an exception, with the in-flight set at that moment.
Threw(stack) == [thrown |-> TRUE, val |-> Blank, stack |-> stack]

\* The schema returned for a reference that is already being resolved.
CircularPlaceholder(ref) ==
    [Blank EXCEPT !.type = "object",
                  !.description = <<"Circular reference detected: ">> \o ref,
                  !.additionalProperties = <<APBool(TRUE)>>]

\* An unresolvable reference left as it is written.
KeepReference(ref) == [Blank EXCEPT !.ref = ref]

\* The schema returned for a reference resolveReference cannot find.
UnresolvedPlaceholder(ref) ==
    [Blank EXCEPT !.type = "object",
                  !.description = <<"Referenced schema: ">> \o ref,
                  !.additionalProperties = <<APBool(TRUE)>>]

\* enumValues.map(v => `'${v}'`)
QuoteEach(values) == [i \in DOMAIN values |-> <<"'", values[i], "'">>]

enhanceEnumDescription(description, enumValues) ==
    LET enumDesc == <<"Allowed values: ">> \o JoinWith(QuoteEach(enumValues), <<", ">>)
    IN  IF description # <<>> THEN description \o <<"\n\n">> \o enumDesc ELSE enumDesc

\* type is "one of", "any of" or "all of": one fragment of the description.
enhanceCompositionDescription(description, type) ==
    LET compositionDesc == <<"Schema supports ", type, " the following options">>
    IN  IF description # <<>> THEN description \o <<"\n\n">> \o compositionDesc
        ELSE compositionDesc

\* resolved.type = schema.type || (schema.properties ? 'object' : 'string')
BasicType(s) ==
    IF s.type # "" THEN s.type
    ELSE IF s.properties # <<>> THEN "object" ELSE "string"

\* if (!resolved.type) resolved.type = 'object', in each composition branch.
CompositionType(type) == IF type = "" THEN "object" ELSE type

\* The basic properties that resolveSchema copies from the schema.
BasicProperties(s) ==
    [Blank EXCEPT
        !.type = BasicType(s),
        !.description = s.description,
        !.example = s.example,
        !.default = s.default,
        !.minimum = s.minimum,
        !.maximum = s.maximum,
        !.minLength = s.minLength,
        !.maxLength = s.maxLength,
        !.pattern = s.pattern,
        !.format = s.format,
        !.nullable = s.nullable]

\* if (schema.enum) { ... }
WithEnum(resolved, s) ==
    IF s.enum # <<>>
    THEN [resolved EXCEPT
            !.enum = s.enum,
            !.description = enhanceEnumDescription(resolved.description, s.enum[1])]
    ELSE resolved

\* The object and array parts of resolveSchema: properties, additionalProperties,
\* items and required, given the resolved properties, the resolved
\* additionalProperties schema and the resolved items.
WithStructure(resolved, s, properties, additional, items) ==
    [resolved EXCEPT
        !.properties = IF s.properties # <<>> THEN <<properties>> ELSE @,
        !.additionalProperties =
            IF s.additionalProperties = <<>> THEN @
            ELSE IF s.additionalProperties[1].isBool THEN s.additionalProperties
            ELSE <<APSchema(additional)>>,
        !.items = IF resolved.type = "array" /\ s.items # <<>> THEN <<items>> ELSE @,
        !.required = s.required]

\* One composition block of resolveSchema: keyword is "oneOf", "anyOf" or
\* "allOf", declared the keyword's value in the schema, branches its resolved
\* members.
WithComposition(resolved, keyword, declared, branches, type) ==
    IF declared = <<>> THEN resolved
    ELSE LET described ==
                 [resolved EXCEPT
                    !.description = enhanceCompositionDescription(resolved.description, type),
                    !.type = CompositionType(resolved.type)]
         IN  CASE keyword = "oneOf" -> [described EXCEPT !.oneOf = <<branches>>]
               [] keyword = "anyOf" -> [described EXCEPT !.anyOf = <<branches>>]
               [] keyword = "allOf" -> [described EXCEPT !.allOf = <<branches>>]

RECURSIVE resolveSchema(_, _, _)
RECURSIVE resolveProperties(_, _, _, _)
RECURSIVE resolveBranches(_, _, _, _)

\* A loop that transforms every property, file field or not.
resolveAllAsFiles(doc, props, done, stack) ==
    IF props = <<>> THEN Returned(done, stack)
    ELSE LET key == Head(props).key
             resolvedProp == resolveSchema(doc, Head(props).schema, stack)
         IN  IF resolvedProp.thrown THEN resolvedProp
             ELSE IF isFileUploadSchema(doc, Head(props).schema) = "RangeError" THEN Threw(stack)
             ELSE resolveProperties(doc, Tail(props),
                    Append(done, Prop(key, transformFileUploadSchema(resolvedProp.val, key))),
                    stack)

\* The loop over Object.entries(schema.properties): done holds the entries
\* resolved so far.  An exception of resolveSchema or of isFileUploadSchema
\* ends the loop.
resolveProperties(doc, props, done, stack) ==
    IF props = <<>> THEN Returned(done, stack)
    ELSE LET key == Head(props).key
             prop == Head(props).schema
             resolvedProp == resolveSchema(doc, prop, stack)
         IN  IF resolvedProp.thrown THEN resolvedProp
             ELSE LET isFile == isFileUploadSchema(doc, prop)
                  IN  IF isFile = "RangeError" THEN Threw(stack)
                      ELSE resolveProperties(doc, Tail(props),
                             Append(done,
                                 Prop(key, IF isFile = "true"
                                           THEN transformFileUploadSchema(resolvedProp.val, key)
                                           ELSE resolvedProp.val)),
                             stack)

\* schema.oneOf.map(s => this.resolveSchema(s)), and the same for anyOf, allOf.
resolveBranches(doc, branches, done, stack) ==
    IF branches = <<>> THEN Returned(done, stack)
    ELSE LET r == resolveSchema(doc, Head(branches), stack)
         IN  IF r.thrown THEN r
             ELSE resolveBranches(doc, Tail(branches), Append(done, r.val), stack)

\* resolveSchema(schema) called with resolutionStack = stack.  Every add of a
\* call is undone by its delete before it returns, so the set a nested call
\* sees is the set of its caller plus the reference being followed.
resolveSchema(doc, s, stack) ==
    IF HasRef(s)
    THEN IF s.ref \in stack THEN Returned(CircularPlaceholder(s.ref), stack)
         ELSE LET resolvedSchema == resolveReference(doc, s.ref)
              IN  IF resolvedSchema # <<>>
                  THEN LET result == resolveSchema(doc, resolvedSchema[1],
                                                   stack \cup {s.ref})
                       IN  IF result.thrown THEN result
                           ELSE Returned(result.val, stack)
                  ELSE Returned(UnresolvedPlaceholder(s.ref), stack)
    ELSE
    LET props == IF s.properties # <<>>
                 THEN resolveProperties(doc, s.properties[1], <<>>, stack)
                 ELSE Returned(<<>>, stack)
        ap == IF s.additionalProperties # <<>> /\ ~s.additionalProperties[1].isBool
              THEN resolveSchema(doc, s.additionalProperties[1].s[1], stack)
              ELSE Returned(Blank, stack)
        items == IF BasicType(s) = "array" /\ s.items # <<>>
                 THEN resolveSchema(doc, s.items[1], stack)
                 ELSE Returned(Blank, stack)
        one == IF s.oneOf # <<>> THEN resolveBranches(doc, s.oneOf[1], <<>>, stack)
               ELSE Returned(<<>>, stack)
        any == IF s.anyOf # <<>> THEN resolveBranches(doc, s.anyOf[1], <<>>, stack)
               ELSE Returned(<<>>, stack)
        all == IF s.allOf # <<>> THEN resolveBranches(doc, s.allOf[1], <<>>, stack)
               ELSE Returned(<<>>, stack)
    IN  \* the first exception in the order of the statements ends the call
        IF props.thrown THEN props
        ELSE IF ap.thrown THEN ap
        ELSE IF items.thrown THEN items
        ELSE IF one.thrown THEN one
        ELSE IF any.thrown THEN any
        ELSE IF all.thrown THEN all
        ELSE Returned(
                WithComposition(
                    WithComposition(
                        WithComposition(
                            WithStructure(WithEnum(BasicProperties(s), s), s,
                                          props.val, ap.val, items.val),
                            "oneOf", s.oneOf, one.val, "one of"),
                        "anyOf", s.anyOf, any.val, "any of"),
                    "allOf", s.allOf, all.val, "all of"),
                stack)

-----------------------------------------------------------------------------
(* The document: paths, operations, parameters, request bodies. *)

\* const methods = ['get', 'post', 'put', 'patch', 'delete', 'options', 'head']
Methods == <<"get", "post", "put", "patch", "delete", "options", "head">>

\* method.toUpperCase()
UpperMethod(m) ==
    CASE m = "get" -> "GET" [] m = "post" -> "POST" [] m = "put" -> "PUT"
      [] m = "patch" -> "PATCH" [] m = "delete" -> "DELETE"
      [] m = "options" -> "OPTIONS" [] m = "head" -> "HEAD"

\* The fragments of a path template that are one non-alphanumeric character;
\* every other fragment is a run of letters and digits.
NonAlnum == {"/", "{", "}", "-", "_", ".", " "}

\* pathKey.replace(/[^a-zA-Z0-9]/g, '_')
ReplaceNonAlnum(path) == [i \in DOMAIN path |-> IF path[i] \in NonAlnum THEN "_" ELSE path[i]]

\* operation.operationId || `${method}_${pathKey.replace(/[^a-zA-Z0-9]/g, '_')}`
OperationIdOf(method, pathKey, operation) ==
    IF operation.operationId # "" THEN operation.operationId
    ELSE Concat(<<method, "_">> \o ReplaceNonAlnum(pathKey))

\* pathItem[method]: <<operation>> or <<>>.
OperationAt(pathItem, method) ==
    IF \E i \in DOMAIN pathItem.ops : pathItem.ops[i].method = method
    THEN <<pathItem.ops[CHOOSE i \in DOMAIN pathItem.ops :
                            pathItem.ops[i].method = method].operation>>
    ELSE <<>>

RECURSIVE MethodsLoop(_, _)
\* The inner loop "for (const method of methods)" from the m-th method on:
\* the operations the path item declares, in the fixed order of methods.
MethodsLoop(pathItem, m) ==
    IF m > Len(Methods) THEN <<>>
    ELSE LET operation == OperationAt(pathItem, Methods[m])
         IN  (IF operation = <<>> THEN <<>>
              ELSE << [pathKey |-> pathItem.path, method |-> Methods[m],
                       operation |-> operation[1],
                       pathParameters |-> pathItem.parameters] >>)
             \o MethodsLoop(pathItem, m + 1)

RECURSIVE PathsLoop(_)
\* The outer loop over Object.entries(schema.paths), in document order.
PathsLoop(paths) ==
    IF paths = <<>> THEN <<>>
    ELSE MethodsLoop(Head(paths), 1) \o PathsLoop(Tail(paths))

\* Map.prototype.set on a map kept in insertion order: a key already there
\* keeps its place and takes the new value.
MapSet(map, key, value) ==
    IF \E i \in DOMAIN map : map[i].key = key
    THEN [i \in DOMAIN map |-> IF map[i].key = key THEN [key |-> key, value |-> value]
                                ELSE map[i]]
    ELSE Append(map, [key |-> key, value |-> value])

MapHas(map, key) == \E i \in DOMAIN map : map[i].key = key

MapGet(map, key) == map[CHOOSE i \in DOMAIN map : map[i].key = key].value

MapKeys(map) == { map[i].key : i \in DOMAIN map }

-----------------------------------------------------------------------------
(* Content types. *)

\* const priorities = [...] of getSupportedContentTypes
priorities ==
    << "application/json", "application/xml", "text/xml",
       "application/x-www-form-urlencoded", "multipart/form-data", "text/plain" >>

\* The content types that occur in the documents, in the order of
\* String.prototype.localeCompare.
LocaleOrder ==
    << "application/json", "application/octet-stream", "application/x-www-form-urlencoded",
       "application/xml", "image/png", "multipart/form-data", "text/csv",
       "text/plain", "text/xml" >>

\* array.indexOf(x), 0-based, -1 when absent.
IndexOf(array, x) ==
    IF \E i \in DOMAIN array : array[i] = x
    THEN (CHOOSE i \in DOMAIN array : array[i] = x /\ \A j \in 1..(i - 1) : array[j] # x) - 1
    ELSE -1

\* The comparator of getSupportedContentTypes: negative when a sorts first.
ComparePriority(a, b) ==
    LET aIndex == IndexOf(priorities, a)
        bIndex == IndexOf(priorities, b)
    IN  IF aIndex = -1 /\ bIndex = -1 THEN IndexOf(LocaleOrder, a) - IndexOf(LocaleOrder, b)
        ELSE IF aIndex = -1 THEN 1
        ELSE IF bIndex = -1 THEN -1
        ELSE aIndex - bIndex

RECURSIVE InsertSorted(_, _)
InsertSorted(sorted, x) ==
    IF sorted = <<>> THEN <<x>>
    ELSE IF ComparePriority(x, Head(sorted)) < 0 THEN <<x>> \o sorted
    ELSE <<Head(sorted)>> \o InsertSorted(Tail(sorted), x)

RECURSIVE SortByPriority(_)
\* contentTypes.sort(comparator): the keys are distinct and the comparator is
\* a total order on them, so every sorting algorithm gives this sequence.
SortByPriority(contentTypes) ==
    IF contentTypes = <<>> THEN <<>>
    ELSE InsertSorted(SortByPriority(Tail(contentTypes)), Head(contentTypes))

\* Object.keys(content)
ContentKeys(content) == [i \in DOMAIN content |-> content[i].type]

\* content[contentType]: the media type object, <<m>> or <<>>.
ContentAt(content, contentType) ==
    IF \E i \in DOMAIN content : content[i].type = contentType
    THEN <<content[CHOOSE i \in DOMAIN content : content[i].type = contentType]>>
    ELSE <<>>

\* The content types in the order the document lists them.
getListedContentTypes(content) == ContentKeys(content)

getSupportedContentTypes(content) == SortByPriority(ContentKeys(content))

-----------------------------------------------------------------------------
(* ToolGenerator.createToolFromOperation and its helpers *)

\* White space fragments, for String.prototype.trim.
WhiteSpace == {" ", "\t", "\n"}

RECURSIVE TrimStart(_)
TrimStart(s) == IF s # <<>> /\ Head(s) \in WhiteSpace THEN TrimStart(Tail(s)) ELSE s

RECURSIVE TrimEnd(_)
TrimEnd(s) ==
    IF s # <<>> /\ s[Len(s)] \in WhiteSpace THEN TrimEnd(SubSeq(s, 1, Len(s) - 1)) ELSE s

\* String.prototype.trim on a string whose white space is in fragments of its own.
Trim(s) == TrimEnd(TrimStart(s))

\* properties[key] = value on an object kept in insertion order.
PropSet(props, key, value) ==
    IF \E i \in DOMAIN props : props[i].key = key
    THEN [i \in DOMAIN props |-> IF props[i].key = key THEN Prop(key, value) ELSE props[i]]
    ELSE Append(props, Prop(key, value))

PropHas(props, key) == \E i \in DOMAIN props : props[i].key = key

PropGet(props, key) == props[CHOOSE i \in DOMAIN props : props[i].key = key].schema

\* param.in.charAt(0).toUpperCase() + param.in.slice(1)
Capitalize(in) ==
    CASE in = "path" -> "Path" [] in = "query" -> "Query"
      [] in = "header" -> "Header" [] in = "cookie" -> "Cookie"

generateParameterDescription(param) ==
    LET baseDesc == <<Capitalize(param.in), " parameter">>
    IN  IF param.required THEN baseDesc \o <<" (required)">> ELSE baseDesc

\* resolveParameterSchema(param), called with resolutionStack = stack.
resolveParameterSchema(doc, param, stack) ==
    IF param.schema # <<>> THEN resolveSchema(doc, param.schema[1], stack)
    ELSE Returned([Blank EXCEPT !.type = "string",
                                !.description = <<param.in, " parameter">>], stack)

createRequestBodyDescription(requestBody, primaryContentType, allContentTypes) ==
    LET description == IF requestBody.description # <<>> THEN requestBody.description
                       ELSE <<"Request body">>
    IN  IF Len(allContentTypes) > 1
        THEN description \o <<" (supports: ">>
             \o JoinWith([i \in DOMAIN allContentTypes |-> <<allContentTypes[i]>>], <<", ">>)
             \o <<")">>
        ELSE description \o <<" (", primaryContentType, ")">>

\* Object.keys(responses).filter(code => code.startsWith('2')); a response
\* code is a fragment sequence of its characters, or <<"default">>.
SuccessResponses(responses) == SelectSeq(responses, LAMBDA code : code # <<>> /\ code[1] = "2")

createToolDescription(operation, method, path) ==
    LET summary == Trim(operation.summary)
        descriptionText == Trim(operation.description)
        d0 == IF summary # <<>>
              THEN IF descriptionText # <<>> /\ descriptionText # summary
                   THEN summary \o <<"\n\n">> \o descriptionText
                   ELSE summary
              ELSE IF descriptionText # <<>> THEN descriptionText
              ELSE <<UpperMethod(method), " ">> \o path
        d1 == IF operation.tags # <<>>
              THEN d0 \o <<"\n\nTags: ">>
                   \o JoinWith([i \in DOMAIN operation.tags |-> <<operation.tags[i]>>], <<", ">>)
              ELSE d0
        successResponses == SuccessResponses(operation.responses)
    IN  IF successResponses # <<>>
        THEN d1 \o <<"\n\nReturns: ">> \o JoinWith(successResponses, <<", ">>)
        ELSE d1

RECURSIVE ParametersLoop(_, _, _, _, _)
\* "for (const param of allParameters)": acc holds properties and required
\* as built so far.  An exception of resolveSchema ends the loop.
ParametersLoop(doc, params, properties, required, stack) ==
    IF params = <<>>
    THEN Returned([properties |-> properties, required |-> required], stack)
    ELSE LET param == Head(params)
         IN  IF param.in = "cookie"
             THEN ParametersLoop(doc, Tail(params), properties, required, stack)
             ELSE LET paramSchema == resolveParameterSchema(doc, param, stack)
                  IN  IF paramSchema.thrown THEN paramSchema
                      ELSE ParametersLoop(doc, Tail(params),
                             PropSet(properties, param.name,
                                 [paramSchema.val EXCEPT !.description =
                                     IF param.description # <<>> THEN param.description
                                     ELSE generateParameterDescription(param)]),
                             IF param.required THEN Append(required, param.name)
                             ELSE required,
                             stack)

\* The request body part of createToolFromOperation, up to the schema of the
\* primary content type: schema is <<schema>>, or <<>> when the tool gets no
\* body property.
PrimaryContent(requestBody) ==
    LET supportedContentTypes ==
            IF requestBody # <<>> /\ requestBody[1].content # <<>>
            THEN getSupportedContentTypes(requestBody[1].content[1]) ELSE <<>>
    IN  IF Len(supportedContentTypes) > 0
        THEN LET contentSchema == ContentAt(requestBody[1].content[1], supportedContentTypes[1])
             IN  [ supportedContentTypes |-> supportedContentTypes,
                   primaryContentType |-> supportedContentTypes[1],
                   schema |-> IF contentSchema # <<>> THEN contentSchema[1].schema ELSE <<>> ]
        ELSE [ supportedContentTypes |-> <<>>, primaryContentType |-> "", schema |-> <<>> ]

\* properties.body = { ...bodySchema, description: fullDescription }
BodyProperty(requestBody, content, bodySchema) ==
    LET baseDescription ==
            createRequestBodyDescription(requestBody, content.primaryContentType,
                                         content.supportedContentTypes)
    IN  [bodySchema EXCEPT !.description =
            IF bodySchema.description # <<>>
            THEN baseDescription \o <<"\n\n">> \o bodySchema.description
            ELSE baseDescription]

\* The Tool returned, given the outcome of the parameters loop and of the
\* resolution of the body schema.
ToolOf(operationId, method, path, operation, content, fromParams, bodySchema, stack) ==
    IF fromParams.thrown THEN fromParams
    ELSE IF bodySchema.thrown THEN bodySchema
    ELSE LET required ==
                 IF content.schema # <<>> /\ operation.requestBody[1].required # <<FALSE>>
                 THEN Append(fromParams.val.required, "body")
                 ELSE fromParams.val.required
         IN  Returned(
               [ name |-> operationId,
                 description |-> createToolDescription(operation, method, path),
                 inputSchema |->
                   [ type |-> "object",
                     properties |->
                        IF content.schema # <<>>
                        THEN PropSet(fromParams.val.properties, "body",
                                     BodyProperty(operation.requestBody[1], content,
                                                  bodySchema.val))
                        ELSE fromParams.val.properties,
                     required |-> IF Len(required) > 0 THEN <<required>> ELSE <<>>,
                     additionalProperties |-> FALSE ] ],
               stack)

\* createToolFromOperation once the primary content of the body is known.
ToolWithContent(doc, operationId, method, path, operation, pathParameters, content, stack) ==
    ToolOf(operationId, method, path, operation, content,
           ParametersLoop(doc, pathParameters \o operation.parameters, <<>>, <<>>, stack),
           IF content.schema # <<>> THEN resolveSchema(doc, content.schema[1], stack)
           ELSE Returned(Blank, stack),
           stack)

\* createToolFromOperation: the Tool, or the exception of a resolveSchema call.
createToolFromOperation(doc, operationId, method, path, operation, pathParameters, stack) ==
    ToolWithContent(doc, operationId, method, path, operation, pathParameters,
                    PrimaryContent(operation.requestBody), stack)

-----------------------------------------------------------------------------
(* ToolGenerator.generateTools *)

\* What generateTools stores in toolMetadata for one operation.
Metadata(operationId, entry) ==
    [ operationId |-> operationId, method |-> UpperMethod(entry.method),
      path |-> entry.pathKey, tags |-> entry.operation.tags,
      responses |-> entry.operation.responses ]

RECURSIVE GenerateLoop(_, _, _, _, _)
\* The two nested loops of generateTools over the operations still to do.
\* Returns the tools pushed, toolMetadata, whether an exception ended the
\* call, and the resolutionStack left behind.
GenerateLoop(doc, entries, done, meta, stack) ==
    IF entries = <<>>
    THEN [thrown |-> FALSE, tools |-> done, toolMetadata |-> meta, stack |-> stack]
    ELSE LET e == Head(entries)
             operationId == OperationIdOf(e.method, e.pathKey, e.operation)
             meta1 == MapSet(meta, operationId, Metadata(operationId, e))
             tool == createToolFromOperation(doc, operationId, e.method, e.pathKey,
                                             e.operation, e.pathParameters, stack)
         IN  IF tool.thrown
             THEN [thrown |-> TRUE, tools |-> <<>>, toolMetadata |-> meta1,
                   stack |-> tool.stack]
             ELSE GenerateLoop(doc, Tail(entries), Append(done, tool.val), meta1, tool.stack)

\* generateTools(schema): the caches and resolutionStack are cleared, then
\* the loops run.
generateTools(doc) == GenerateLoop(doc, PathsLoop(doc.paths), <<>>, <<>>, {})

-----------------------------------------------------------------------------
(* The documents tried. *)

\* "#/components/schemas/<name>"
RefTo(name) == <<"#", "/", "components", "/", "schemas", "/", name>>

Ref(r) == [Blank EXCEPT !.ref = r]

RefA == Ref(RefTo("A"))
RefB == Ref(RefTo("B"))
\* A pointer whose last segment names no definition of the document.
RefMissing == Ref(RefTo("Missing"))
\* A pointer whose first segment is missing from the document.
RefDefinitions == Ref(<<"#", "/", "definitions", "/", "A">>)
\* A reference into another document.
RefExternal == Ref(<<"other.yaml#", "/", "components", "/", "schemas", "/", "A">>)

StrSchema == [Blank EXCEPT !.type = "string"]
StrDescribed == [Blank EXCEPT !.type = "string", !.description = <<"The name">>,
                              !.minLength = <<1>>, !.enum = << <<"a", "b">> >>]
IntSchema == [Blank EXCEPT !.type = "integer", !.minimum = <<0>>]
Bin == [Blank EXCEPT !.type = "string", !.format = "binary",
                     !.description = <<"The image">>]
\* format: binary with no type
BinUntyped == [Blank EXCEPT !.format = "binary"]

ObjOf(n) == [Blank EXCEPT !.type = "object",
                          !.properties = << <<Prop("file", n), Prop("name", StrSchema)>> >>,
                          !.required = << <<"file">> >>]
\* properties and no type
UntypedObjOf(n) == [Blank EXCEPT !.properties = << <<Prop("file", n)>> >>]
ArrOf(n) == [Blank EXCEPT !.type = "array", !.items = <<n>>]
\* format: binary written on the array itself
BinArrOf(n) == [Blank EXCEPT !.type = "array", !.format = "binary", !.items = <<n>>]
MapOf(n) == [Blank EXCEPT !.type = "object", !.additionalProperties = <<APSchema(n)>>]
OneOf(bs) == [Blank EXCEPT !.oneOf = <<bs>>]
AnyOf(bs) == [Blank EXCEPT !.anyOf = <<bs>>, !.description = <<"A choice">>]
AllOf(bs) == [Blank EXCEPT !.allOf = <<bs>>]
\* The usual upload form: one file, several files, a plain field.
UploadForm ==
    [Blank EXCEPT !.type = "object",
                  !.properties = << <<Prop("file", Bin), Prop("photos", ArrOf(Bin)),
                                      Prop("name", StrSchema)>> >>]
\* a composition that also declares a type
TypedOneOf(bs) == [Blank EXCEPT !.type = "object", !.oneOf = <<bs>>]

Leaves == {StrSchema, StrDescribed, IntSchema, Bin, BinUntyped,
           RefA, RefB, RefMissing, RefDefinitions, RefExternal}

BranchLeaves == {StrSchema, RefA, RefB}

\* The sequences of 1..n members of S.
SeqsUpTo(S, n) == UNION { [1..k -> S] : k \in 1..n }

Compositions ==
    UNION { {OneOf(bs), AnyOf(bs), AllOf(bs)} : bs \in SeqsUpTo(BranchLeaves, MaxBranches) }
    \cup {TypedOneOf(<<StrSchema, RefB>>), OneOf(<<ObjOf(RefA)>>)}

\* The definitions tried for components.schemas.A
DefinitionsA ==
    Leaves
    \cup { ObjOf(n) : n \in Leaves }
    \cup { ArrOf(n) : n \in Leaves }
    \cup { MapOf(n) : n \in {StrSchema, RefA, RefB} }
    \cup { UploadForm, UntypedObjOf(RefB), BinArrOf(StrSchema), BinArrOf(Bin), ObjOf(ArrOf(Bin)),
           ObjOf(ArrOf(RefB)), ObjOf(BinArrOf(StrSchema)) }
    \cup Compositions

\* The definitions tried for components.schemas.B
DefinitionsB == {StrSchema, Bin, RefA, RefB, ObjOf(RefA), ArrOf(Bin), [Bin EXCEPT !.type = "object",
                 !.properties = << <<Prop("self", RefB)>> >>]}

\* The request body schemas tried for the first operation.
BodySchemas == {RefA, ObjOf(RefA), ArrOf(RefA), RefMissing}

\* The parameter schemas tried for the second operation.
ParamSchemas == {<<>>, <<IntSchema>>, <<RefB>>, <<ObjOf(RefB)>>}

Param(name, in, required, s) ==
    [name |-> name, in |-> in, required |-> required, description |-> <<>>, schema |-> s]

NoOperation ==
    [ operationId |-> "", summary |-> <<>>, description |-> <<>>, tags |-> <<>>,
      parameters |-> <<>>, requestBody |-> <<>>, responses |-> <<>> ]

Media(type, s) == [type |-> type, schema |-> s]

Body(required, content) ==
    [description |-> <<>>, required |-> required, content |-> <<content>>]

\* A document with the definitions a and b, an upload operation whose body
\* has the schema body, and a second operation with a parameter of schema p.
GenDoc(a, b, body, p) ==
    [ hasComponents |-> TRUE,
      schemas |-> <<Prop("A", a), Prop("B", b)>>,
      servers |-> << <<"https://api.example.com">> >>,
      paths |-> <<
        [ path |-> <<"/", "upload">>, parameters |-> <<>>,
          ops |-> << [method |-> "post", operation |->
                       [NoOperation EXCEPT
                          !.operationId = "uploadFile",
                          !.summary = <<"Upload a file">>,
                          !.requestBody = <<Body(<<TRUE>>, <<Media("multipart/form-data", <<body>>)>>)>>,
                          !.responses = << <<"2", "0", "1">>, <<"4", "0", "0">> >>]] >> ],
        [ path |-> <<"/", "users", "/", "{", "id", "}">>,
          parameters |-> <<Param("id", "path", TRUE, <<IntSchema>>)>>,
          ops |-> << [method |-> "get", operation |->
                       [NoOperation EXCEPT
                          !.tags = <<"users">>,
                          !.parameters = <<Param("filter", "query", FALSE, p),
                                           Param("session", "cookie", TRUE, <<StrSchema>>)>>]] >> ] >> ]

\* A document with GET /user/profile, which has no operationId, and a GET
\* on a second path with the operationId given ("" when it has none).
PathsDoc(second, operationId) ==
    [ hasComponents |-> TRUE,
      schemas |-> <<Prop("A", StrSchema), Prop("B", StrSchema)>>,
      servers |-> << <<"https://api.example.com">> >>,
      paths |-> <<
        [ path |-> <<"/", "user", "/", "profile">>, parameters |-> <<>>,
          ops |-> << [method |-> "get", operation |->
                       [NoOperation EXCEPT !.summary = <<"The profile page">>]] >> ],
        [ path |-> second, parameters |-> <<>>,
          ops |-> << [method |-> "get", operation |->
                       [NoOperation EXCEPT !.operationId = operationId,
                                           !.summary = <<"The profile as data">>]] >> ] >> ]

PathsDocs ==
    { PathsDoc(second, operationId) :
        second \in { <<"/", "user", "-", "profile">>, <<"/", "user", "/", "settings">> },
        operationId \in {"", "getProfile", "get__user_profile"} }

\* The content types tried.
ContentTypes == SeqToSet(LocaleOrder)

\* Spellings of the Content-Type header name that documents declare.
ContentTypeSpellings == <<"Content-Type", "content-type", "Content-type", "CONTENT-TYPE">>

\* The schema declared under a content type: its minLength tells the type.
SchemaUnder(type) == [StrSchema EXCEPT !.minLength = <<IndexOf(LocaleOrder, type)>>]

\* A document whose one operation declares the content types listed, in
\* that order.
ContentDoc(listed) ==
    [ hasComponents |-> TRUE,
      schemas |-> <<Prop("A", StrSchema), Prop("B", StrSchema)>>,
      servers |-> << <<"https://api.example.com">> >>,
      paths |-> <<
        [ path |-> <<"/", "items">>, parameters |-> <<>>,
          ops |-> << [method |-> "post", operation |->
                       [NoOperation EXCEPT
                          !.operationId = "createItem",
                          !.parameters =
                              [k \in DOMAIN ContentTypeSpellings |->
                                  Param(ContentTypeSpellings[k], "header", FALSE, <<StrSchema>>)],
                          !.requestBody = <<Body(<<TRUE>>,
                              [i \in DOMAIN listed |-> Media(listed[i], <<SchemaUnder(listed[i])>>)])>>]] >> ] >> ]

\* One to MaxContentTypes different content types in every order.
ContentDocs ==
    { ContentDoc(listed) :
        listed \in { s \in SeqsUpTo(ContentTypes, MaxContentTypes) :
                        \A i, j \in DOMAIN s : s[i] = s[j] => i = j } }

GenDocs ==
    { GenDoc(a, b, body, p) :
        a \in DefinitionsA, b \in DefinitionsB, body \in BodySchemas, p \in ParamSchemas }

-----------------------------------------------------------------------------
(* JavaScript values, as far as the APIClient handles them. *)

\* A value carries its typeof / Array.isArray class in t.  A string is the
\* sequence of its characters; a number is finite (an integer here), NaN or
\* an infinity; an object is the sequence of its entries in key order.
Undefined == [t |-> "undefined", v |-> <<>>]
Null == [t |-> "null", v |-> <<>>]
Bool(b) == [t |-> "boolean", v |-> b]
Num(n) == [t |-> "number", v |-> [cls |-> "finite", n |-> n]]
NaN == [t |-> "number", v |-> [cls |-> "NaN", n |-> 0]]
PlusInfinity == [t |-> "number", v |-> [cls |-> "Infinity", n |-> 0]]
MinusInfinity == [t |-> "number", v |-> [cls |-> "-Infinity", n |-> 0]]
String(chars) == [t |-> "string", v |-> chars]
Array(elems) == [t |-> "array", v |-> elems]
Object(entries) == [t |-> "object", v |-> entries]
Entry(k, val) == [key |-> k, value |-> val]

\* value === undefined || value === null
IsNullish(val) == val.t \in {"undefined", "null"}

\* obj[key]: the value of the entry, Undefined when there is none.
Lookup(entries, k) ==
    IF \E i \in DOMAIN entries : entries[i].key = k
    THEN entries[CHOOSE i \in DOMAIN entries : entries[i].key = k].value
    ELSE Undefined

Digits == <<"0", "1", "2", "3", "4", "5", "6", "7", "8", "9">>

IsDigit(c) == \E i \in DOMAIN Digits : Digits[i] = c

DigitValue(c) == (CHOOSE i \in DOMAIN Digits : Digits[i] = c) - 1

RECURSIVE DigitsValue(_, _)
\* The number written by a run of decimal digits, read after acc.
DigitsValue(chars, acc) ==
    IF chars = <<>> THEN acc
    ELSE DigitsValue(Tail(chars), 10 * acc + DigitValue(Head(chars)))

AllDigits(chars) == chars # <<>> /\ \A i \in DOMAIN chars : IsDigit(chars[i])

RECURSIVE NatToChars(_)
NatToChars(n) ==
    IF n < 10 THEN <<Digits[n + 1]>>
    ELSE Append(NatToChars(n \div 10), Digits[(n % 10) + 1])

\* Number.prototype.toString for the numbers of the model.
NumberToChars(num) ==
    CASE num.cls = "NaN" -> <<"N", "a", "N">>
      [] num.cls = "Infinity" -> <<"I", "n", "f", "i", "n", "i", "t", "y">>
      [] num.cls = "-Infinity" -> <<"-", "I", "n", "f", "i", "n", "i", "t", "y">>
      [] OTHER -> IF num.n < 0 THEN <<"-">> \o NatToChars(-num.n) ELSE NatToChars(num.n)

InfinityChars == <<"I", "n", "f", "i", "n", "i", "t", "y">>

\* ToNumber applied to a string (StringNumericLiteral): white space trimmed,
\* the empty string is 0, an optional sign, then "Infinity" or decimal
\* digits.  The argument strings of this model hold no decimal point, no
\* exponent and no radix prefix.
StringToNumber(chars) ==
    LET t == Trim(chars)
        signed == t # <<>> /\ Head(t) \in {"+", "-"}
        negative == signed /\ Head(t) = "-"
        body == IF signed THEN Tail(t) ELSE t
    IN  IF t = <<>> THEN Num(0)
        ELSE IF body = InfinityChars THEN (IF negative THEN MinusInfinity ELSE PlusInfinity)
        ELSE IF AllDigits(body)
             THEN Num(IF negative THEN -DigitsValue(body, 0) ELSE DigitsValue(body, 0))
        ELSE NaN

RECURSIVE ToStringChars(_)
\* String(value): ToString of any value.
ToStringChars(val) ==
    CASE val.t = "undefined" -> <<"u", "n", "d", "e", "f", "i", "n", "e", "d">>
      [] val.t = "null" -> <<"n", "u", "l", "l">>
      [] val.t = "boolean" -> IF val.v THEN <<"t", "r", "u", "e">>
                              ELSE <<"f", "a", "l", "s", "e">>
      [] val.t = "number" -> NumberToChars(val.v)
      [] val.t = "string" -> val.v
      [] val.t = "array" ->
            \* Array.prototype.join(","): null and undefined members are empty
            JoinWith([i \in DOMAIN val.v |->
                        IF IsNullish(val.v[i]) THEN <<>> ELSE ToStringChars(val.v[i])],
                     <<",">>)
      [] val.t = "object" -> <<"[object Object]">>

\* Number(value): ToNumber of any value.
ToNumber(val) ==
    CASE val.t = "undefined" -> NaN
      [] val.t = "null" -> Num(0)
      [] val.t = "boolean" -> IF val.v THEN Num(1) ELSE Num(0)
      [] val.t = "number" -> val
      [] val.t = "string" -> StringToNumber(val.v)
      [] val.t = "array" -> StringToNumber(ToStringChars(val))
      [] val.t = "object" -> NaN

\* isNaN(num), for a number
IsNaN(num) == num.v.cls = "NaN"

UpperCase == <<"A", "B", "C", "D", "E", "F", "G", "H", "I", "J", "K", "L", "M",
               "N", "O", "P", "Q", "R", "S", "T", "U", "V", "W", "X", "Y", "Z">>
LowerCase == <<"a", "b", "c", "d", "e", "f", "g", "h", "i", "j", "k", "l", "m",
               "n", "o", "p", "q", "r", "s", "t", "u", "v", "w", "x", "y", "z">>

\* A toLowerCase that leaves the text as it is written.
KeepCase(chars) == chars

\* String.prototype.toLowerCase, character by character.
ToLowerCase(chars) ==
    [i \in DOMAIN chars |->
        IF \E k \in DOMAIN UpperCase : UpperCase[k] = chars[i]
        THEN LowerCase[CHOOSE k \in DOMAIN UpperCase : UpperCase[k] = chars[i]]
        ELSE chars[i]]

-----------------------------------------------------------------------------
(* JSON.parse and JSON.stringify *)

\* The texts of this model are written with white space " ", brackets,
\* commas, double quotes, a minus sign, digits and letters: no braces, no
\* backslash, no decimal point, no exponent after a digit.  Over these,
\* JSON is: string | number | true | false | null | array.

JsonWhiteSpace == {" ", "\t", "\n", "\r"}

RECURSIVE SkipWs(_)
SkipWs(s) == IF s # <<>> /\ Head(s) \in JsonWhiteSpace THEN SkipWs(Tail(s)) ELSE s

\* A failed parse (JSON.parse throws SyntaxError).
ParseFailed == [ok |-> FALSE, val |-> Null, rest |-> <<>>]

Parsed(val, rest) == [ok |-> TRUE, val |-> val, rest |-> rest]

\* Whether s starts with the characters of word.
StartsWith(s, word) == Len(s) >= Len(word) /\ SubSeq(s, 1, Len(word)) = word

Drop(s, n) == SubSeq(s, n + 1, Len(s))

RECURSIVE TakeDigits(_)
TakeDigits(s) == IF s # <<>> /\ IsDigit(Head(s)) THEN <<Head(s)>> \o TakeDigits(Tail(s)) ELSE <<>>

RECURSIVE TakeUntilQuote(_)
TakeUntilQuote(s) ==
    IF s = <<>> \/ Head(s) = "\"" THEN <<>> ELSE <<Head(s)>> \o TakeUntilQuote(Tail(s))

\* A JSON number: -? (0 | [1-9][0-9]*)
ParseJsonNumber(s) ==
    LET negative == Head(s) = "-"
        body == IF negative THEN Tail(s) ELSE s
        digits == TakeDigits(body)
    IN  IF digits = <<>> \/ (Len(digits) > 1 /\ Head(digits) = "0") THEN ParseFailed
        ELSE Parsed(Num(IF negative THEN -DigitsValue(digits, 0) ELSE DigitsValue(digits, 0)),
                    Drop(body, Len(digits)))

\* A JSON string: the characters up to the closing quote.
ParseJsonString(s) ==
    LET chars == TakeUntilQuote(Tail(s))
    IN  IF Len(chars) + 1 >= Len(s) THEN ParseFailed
        ELSE Parsed(String(chars), Drop(s, Len(chars) + 2))

RECURSIVE ParseJsonValue(_)
RECURSIVE ParseJsonElements(_, _)

\* The members of an array after "[" or after a comma; done holds the
\* members read so far.
ParseJsonElements(s, done) ==
    LET e == ParseJsonValue(s)
        after == SkipWs(e.rest)
    IN  IF ~e.ok \/ after = <<>> THEN ParseFailed
        ELSE IF Head(after) = "]" THEN Parsed(Array(Append(done, e.val)), Tail(after))
        ELSE IF Head(after) = "," THEN ParseJsonElements(Tail(after), Append(done, e.val))
        ELSE ParseFailed

\* One JSON value with the white space before it, and the text left over.
ParseJsonValue(s) ==
    LET t == SkipWs(s)
    IN  IF t = <<>> THEN ParseFailed
        ELSE IF Head(t) = "[" THEN
                (IF SkipWs(Tail(t)) # <<>> /\ Head(SkipWs(Tail(t))) = "]"
                 THEN Parsed(Array(<<>>), Tail(SkipWs(Tail(t))))
                 ELSE ParseJsonElements(Tail(t), <<>>))
        ELSE IF Head(t) = "\"" THEN ParseJsonString(t)
        ELSE IF Head(t) = "-" \/ IsDigit(Head(t)) THEN ParseJsonNumber(t)
        ELSE IF StartsWith(t, <<"t", "r", "u", "e">>) THEN Parsed(Bool(TRUE), Drop(t, 4))
        ELSE IF StartsWith(t, <<"f", "a", "l", "s", "e">>) THEN Parsed(Bool(FALSE), Drop(t, 5))
        ELSE IF StartsWith(t, <<"n", "u", "l", "l">>) THEN Parsed(Null, Drop(t, 4))
        ELSE ParseFailed

\* JSON.parse(text): ok is FALSE when it throws.
JsonParse(chars) ==
    LET r == ParseJsonValue(chars)
    IN  IF r.ok /\ SkipWs(r.rest) = <<>> THEN r ELSE ParseFailed

RECURSIVE JsonStringify(_)
\* JSON.stringify(value) for values without undefined members, NaN or
\* infinities; the strings hold no quote and no backslash.
JsonStringify(val) ==
    CASE val.t = "null" -> <<"n", "u", "l", "l">>
      [] val.t = "boolean" -> ToStringChars(val)
      [] val.t = "number" -> NumberToChars(val.v)
      [] val.t = "string" -> <<"\"">> \o val.v \o <<"\"">>
      [] val.t = "array" ->
            <<"[">> \o JoinWith([i \in DOMAIN val.v |-> JsonStringify(val.v[i])], <<",">>)
            \o <<"]">>
      [] val.t = "object" ->
            <<"{">>
            \o JoinWith([i \in DOMAIN val.v |->
                            <<"\"", val.v[i].key, "\"", ":">> \o JsonStringify(val.v[i].value)],
                        <<",">>)
            \o <<"}">>

-----------------------------------------------------------------------------
(* APIClient.processParameterValue *)

\* A value returned, or an Error thrown with this message.
Value(val) == [thrown |-> FALSE, val |-> val, message |-> <<>>]
Error(message) == [thrown |-> TRUE, val |-> Undefined, message |-> message]

\* A split that keeps the white space around the segments.
SplitOnly(chars) == Array([i \in DOMAIN SplitOn(chars, ",", <<>>) |->
                            String(SplitOn(chars, ",", <<>>)[i])])

\* value.split(',').map(v => v.trim())
SplitAndTrim(chars) ==
    LET pieces == SplitOn(chars, ",", <<>>)
    IN  Array([i \in DOMAIN pieces |-> String(Trim(pieces[i]))])

processParameterValue(param, value) ==
    IF param.schema = <<>> THEN Value(value)
    ELSE
    LET type == param.schema[1].type
    IN  CASE type \in {"integer", "number"} ->
               LET num == ToNumber(value)
               IN  IF IsNaN(num)
                   THEN Error(<<"Parameter ", param.name, " must be a valid number, got: ">>
                              \o ToStringChars(value))
                   ELSE Value(num)
          [] type = "boolean" ->
               IF value.t = "boolean" THEN Value(value)
               ELSE IF value.t = "string"
                       /\ ToLowerCase(value.v) = <<"t", "r", "u", "e">> THEN Value(Bool(TRUE))
               ELSE IF value.t = "string"
                       /\ ToLowerCase(value.v) = <<"f", "a", "l", "s", "e">> THEN Value(Bool(FALSE))
               ELSE Error(<<"Parameter ", param.name, " must be a boolean, got: ">>
                          \o ToStringChars(value))
          [] type = "array" ->
               IF value.t = "array" THEN Value(value)
               ELSE IF value.t = "string"
               THEN LET parsed == JsonParse(value.v)
                    IN  IF parsed.ok THEN Value(parsed.val) ELSE Value(SplitAndTrim(value.v))
               ELSE Error(<<"Parameter ", param.name, " must be an array, got: ">>
                          \o ToStringChars(value))
          [] OTHER -> Value(String(ToStringChars(value)))

-----------------------------------------------------------------------------
(* APIClient: constructor, initialize, getBaseUrl, parseOperations *)

\* ToBoolean(value): what "if (value)", "!value" and "a || b" test.
Truthy(val) ==
    CASE val.t \in {"undefined", "null"} -> FALSE
      [] val.t = "boolean" -> val.v
      [] val.t = "number" -> ~(val.v.cls = "NaN" \/ (val.v.cls = "finite" /\ val.v.n = 0))
      [] val.t = "string" -> val.v # <<>>
      [] OTHER -> TRUE

\* typeof value
TypeOf(val) ==
    CASE val.t \in {"null", "array", "object", "formdata"} -> "object"
      [] OTHER -> val.t

\* Object.entries(value) of an object or an array (whose keys are its indices).
ObjectEntries(val) ==
    IF val.t = "array"
    THEN [i \in DOMAIN val.v |-> Entry(Concat(NatToChars(i - 1)), val.v[i])]
    ELSE val.v

\* this.client.defaults.headers.common of the axios instance made by the
\* constructor: the library's own common headers.
ClientCommonHeaders == <<Entry("Accept", <<"application/json, text/plain, */*">>)>>

\* getBaseUrl taking the last declared server.
getLastServerUrl(doc) ==
    IF Len(doc.servers) > 0 THEN Value(doc.servers[Len(doc.servers)])
    ELSE Error(<<"No server URL found in OpenAPI schema and no base URL provided">>)

\* getBaseUrl(schema): schema.servers[0].url, or throws.
getBaseUrl(doc) ==
    IF Len(doc.servers) > 0 THEN Value(doc.servers[1])
    ELSE Error(<<"No server URL found in OpenAPI schema and no base URL provided">>)

\* One entry of the catalog, as this.operations.set(...) stores it.
OperationInfo(e) ==
    [ method |-> UpperMethod(e.method),
      path |-> e.pathKey,
      operation |-> e.operation,
      parameters |-> e.pathParameters \o e.operation.parameters,
      requestBody |-> e.operation.requestBody ]

RECURSIVE ParseLoop(_, _)
\* The two loops of parseOperations over the entries of the document, adding to
\* the catalog ops (which is never cleared).
ParseLoop(entries, ops) ==
    IF entries = <<>> THEN ops
    ELSE LET e == Head(entries)
             operationId == OperationIdOf(e.method, e.pathKey, e.operation)
         IN  ParseLoop(Tail(entries), MapSet(ops, operationId, OperationInfo(e)))

parseOperations(doc, ops) == ParseLoop(PathsLoop(doc.paths), ops)

\* initialize(schema): the fields after the call and whether it threw.  The
\* schema is stored first; a missing base URL throws before the catalog is
\* touched.
initialize(opts, doc, ops, base) ==
    LET url == IF opts.baseUrl # <<>> THEN Value(opts.baseUrl) ELSE getBaseUrl(doc)
    IN  IF url.thrown
        THEN [thrown |-> TRUE, message |-> url.message, baseUrl |-> base, operations |-> ops]
        ELSE [thrown |-> FALSE, message |-> <<>>, baseUrl |-> url.val,
              operations |-> parseOperations(doc, ops)]

-----------------------------------------------------------------------------
(* APIClient: URL, query and header routing *)

\* The characters encodeURIComponent leaves alone besides letters and digits.
UriUnreserved == {"-", "_", ".", "!", "~", "*", "'", "(", ")"}

\* The escapes of the other characters that occur in the arguments.
UriEscapes ==
    << Entry(" ", "%20"), Entry("/", "%2F"), Entry(",", "%2C"), Entry("[", "%5B"),
       Entry("]", "%5D"), Entry("\"", "%22"), Entry("+", "%2B"), Entry("?", "%3F"),
       Entry("&", "%26"), Entry("=", "%3D"), Entry("#", "%23"), Entry("{", "%7B"),
       Entry("}", "%7D"), Entry(":", "%3A"), Entry("%", "%25") >>

IsAlnum(c) ==
    \/ IsDigit(c)
    \/ \E k \in DOMAIN UpperCase : UpperCase[k] = c
    \/ \E k \in DOMAIN LowerCase : LowerCase[k] = c

\* encodeURIComponent(text), character by character.
encodeURIComponent(chars) ==
    [i \in DOMAIN chars |->
        IF IsAlnum(chars[i]) \/ chars[i] \in UriUnreserved THEN chars[i]
        ELSE Lookup(UriEscapes, chars[i])]

\* The serializer of URLSearchParams.toString(): "*", "-", ".", "_", letters
\* and digits stay, a space becomes "+", the rest is percent-encoded.
FormUrlEncode(chars) ==
    [i \in DOMAIN chars |->
        IF IsAlnum(chars[i]) \/ chars[i] \in {"*", "-", ".", "_"} THEN chars[i]
        ELSE IF chars[i] = " " THEN "+"
        ELSE IF chars[i] = "!" THEN "%21"
        ELSE IF chars[i] = "~" THEN "%7E"
        ELSE IF chars[i] = "'" THEN "%27"
        ELSE IF chars[i] = "(" THEN "%28"
        ELSE IF chars[i] = ")" THEN "%29"
        ELSE Lookup(UriEscapes, chars[i])]

\* url.replace(`{${name}}`, replacement): the first occurrence only; the
\* template is written "{", name, "}" in three fragments.
ReplaceFirst(url, name, replacement) ==
    LET hits == { i \in 1..(Len(url) - 2) :
                    url[i] = "{" /\ url[i + 1] = name /\ url[i + 2] = "}" }
    IN  IF hits = {} THEN url
        ELSE LET i == CHOOSE h \in hits : \A g \in hits : h <= g
             IN  SubSeq(url, 1, i - 1) \o replacement \o SubSeq(url, i + 3, Len(url))

\* delete obj[key]
MapDelete(map, key) == SelectSeq(map, LAMBDA e : e.key # key)

\* { ...a, ...b }
RECURSIVE Spread(_, _)
Spread(a, b) == IF b = <<>> THEN a ELSE Spread(MapSet(a, Head(b).key, Head(b).value), Tail(b))

\* The state of the parameter loop of executeOperation.
LoopState(url, queryParams, headers, missing, thrown, message) ==
    [ url |-> url, queryParams |-> queryParams, headers |-> headers,
      missingRequiredParams |-> missing, thrown |-> thrown, message |-> message ]

RECURSIVE ParamLoop(_, _, _)
\* "for (const param of parameters)" over the parameters left, from state st.
\* A value that processParameterValue rejects ends the loop, and the call,
\* there and then.
ParamLoop(params, args, st) ==
    IF params = <<>> THEN st
    ELSE
    LET param == Head(params)
        value == Lookup(args, param.name)
    IN  IF IsNullish(value)
        THEN ParamLoop(Tail(params), args,
                [st EXCEPT !.missingRequiredParams =
                    IF param.required
                    THEN Append(@, <<param.name, " (", param.in, ")">>)
                    ELSE @])
        ELSE
        LET processed == processParameterValue(param, value)
        IN  IF processed.thrown
            THEN [st EXCEPT !.thrown = TRUE, !.message = processed.message]
            ELSE ParamLoop(Tail(params), args,
                    CASE param.in = "path" ->
                           [st EXCEPT !.url = ReplaceFirst(@, param.name,
                                        encodeURIComponent(ToStringChars(processed.val)))]
                      [] param.in = "query" ->
                           [st EXCEPT !.queryParams = MapSet(@, param.name, processed.val)]
                      [] param.in = "header" ->
                           [st EXCEPT !.headers =
                                MapSet(@, param.name, ToStringChars(processed.val))]
                      [] OTHER -> st)

-----------------------------------------------------------------------------
(* APIClient: request body *)

\* headers[name] as a value: the string, or undefined.
HeaderValue(headers, name) ==
    IF MapHas(headers, name) THEN String(MapGet(headers, name)) ELSE Undefined

\* determineContentType(requestBody, headers): a string value or undefined.
determineContentType(requestBody, headers) ==
    LET existingContentType ==
            IF Truthy(HeaderValue(headers, "Content-Type"))
            THEN HeaderValue(headers, "Content-Type")
            ELSE HeaderValue(headers, "content-type")
        contentTypes == IF requestBody.content = <<>> THEN <<>>
                        ELSE ContentKeys(requestBody.content[1])
        includes(t) == \E i \in DOMAIN contentTypes : contentTypes[i] = t
    IN  IF Truthy(existingContentType) THEN existingContentType
        ELSE IF includes("application/json") THEN String(<<"application/json">>)
        ELSE IF includes("application/xml") THEN String(<<"application/xml">>)
        ELSE IF includes("text/xml") THEN String(<<"text/xml">>)
        ELSE IF includes("application/x-www-form-urlencoded")
             THEN String(<<"application/x-www-form-urlencoded">>)
        ELSE IF includes("multipart/form-data") THEN String(<<"multipart/form-data">>)
        ELSE IF contentTypes = <<>> THEN Undefined
        ELSE String(<<contentTypes[1]>>)

\* The text of a content type value, to compare it with a literal.
ContentTypeText(contentType) == IF contentType.t = "string" THEN Concat(contentType.v) ELSE ""

\* processRequestBody(body, contentType)
processRequestBody(body, contentType) ==
    IF ~Truthy(contentType) THEN Value(body)
    ELSE CASE ContentTypeText(contentType) = "application/json" ->
                IF body.t = "string"
                THEN LET parsed == JsonParse(body.v)
                     IN  IF parsed.ok THEN Value(parsed.val)
                         ELSE Error(<<"SyntaxError: ">> \o body.v)
                ELSE Value(body)
           [] ContentTypeText(contentType) = "application/x-www-form-urlencoded" ->
                IF TypeOf(body) = "object" /\ body.t # "null"
                THEN LET entries == ObjectEntries(body)
                     IN  Value(String(JoinWith(
                            [i \in DOMAIN entries |->
                                <<entries[i].key, "=">>
                                \o FormUrlEncode(ToStringChars(entries[i].value))],
                            <<"&">>)))
                ELSE Value(body)
           [] OTHER -> Value(body)

\* The words of a description that toLowerCase() changes, besides single
\* letters.
LowerWords == <<Entry("File Path", "file path"), Entry("File path", "file path"),
                Entry("FilePath", "filepath"), Entry("filePath", "filepath")>>

\* description.toLowerCase(), fragment by fragment.
LowerFragments(text) ==
    [i \in DOMAIN text |->
        IF \E k \in DOMAIN LowerWords : LowerWords[k].key = text[i]
        THEN LowerWords[CHOOSE k \in DOMAIN LowerWords : LowerWords[k].key = text[i]].value
        ELSE text[i]]

\* isFileField(schema), schema being <<node>> or <<>> (undefined / null).
isFileField(s) ==
    IF s = <<>> THEN FALSE
    ELSE IF s[1].format = "binary" THEN TRUE
    ELSE IF s[1].type = "array"
            /\ (s[1].format = "binary"
                \/ (s[1].items # <<>> /\ s[1].items[1].format = "binary")) THEN TRUE
    ELSE LET description == LowerFragments(s[1].description)
         IN  Includes(description, "file path") \/ Includes(description, "filepath")

RECURSIVE WalkSchemaRef(_, _, _)
\* The for loop of resolveSchemaReference over the parts left: "undefined"
\* marks the early return at a part that current does not hold.
WalkSchemaRef(doc, parts, cur) ==
    IF parts = <<>> THEN cur
    ELSE LET next == Child(doc, cur, Concat(Head(parts)))
         IN  IF next.lvl = "undefined" THEN next ELSE WalkSchemaRef(doc, Tail(parts), next)

\* resolveSchemaReference(schema): one step through a "#/" pointer; the schema
\* itself when the pointer leads nowhere or is not local.
resolveSchemaReference(doc, s) ==
    IF s = <<>> THEN <<>>
    ELSE IF HasRef(s[1])
    THEN LET ref == s[1].ref
         IN  IF Len(ref) >= 2 /\ ref[1] = "#" /\ ref[2] = "/"
             THEN LET parts == SplitOn(Drop(ref, 2), "/", <<>>)
                      current == WalkSchemaRef(doc, parts, [lvl |-> "root", node |-> Blank])
                  IN  IF current.lvl = "undefined" THEN s ELSE <<current.node>>
             ELSE s
    ELSE s

\* getRequestBodySchema(requestBody, contentType)
getRequestBodySchema(doc, requestBody, contentType) ==
    LET content == IF requestBody.content = <<>> THEN <<>>
                   ELSE ContentAt(requestBody.content[1], contentType)
    IN  IF content = <<>> \/ content[1].schema = <<>> THEN <<>>
        ELSE resolveSchemaReference(doc, content[1].schema)

-----------------------------------------------------------------------------
(* APIClient: multipart/form-data and the file system *)

\* The file system is a sequence of entries [path, kind], kind being "file"
\* or "directory"; a path with no entry does not exist.
FsEntry(path, kind) == [path |-> path, kind |-> kind]

\* fs.existsSync(path)
existsSync(fsys, path) == \E i \in DOMAIN fsys : fsys[i].path = path

\* fs.statSync(path).isFile(), for a path that exists
isFile(fsys, path) == \E i \in DOMAIN fsys : fsys[i].path = path /\ fsys[i].kind = "file"

RECURSIVE StripTrailingSlashes(_)
StripTrailingSlashes(p) ==
    IF p # <<>> /\ p[Len(p)] = "/" THEN StripTrailingSlashes(SubSeq(p, 1, Len(p) - 1)) ELSE p

RECURSIVE AfterLast(_, _)
\* The characters of p after its last c; all of p when c does not occur.
AfterLast(p, c) ==
    IF \E i \in DOMAIN p : p[i] = c
    THEN AfterLast(Drop(p, CHOOSE i \in DOMAIN p : p[i] = c /\ \A j \in 1..(i - 1) : p[j] # c), c)
    ELSE p

\* path.basename(p) (POSIX): the last segment, trailing slashes dropped.
basename(p) == AfterLast(StripTrailingSlashes(p), "/")

\* path.extname(p): from the last "." of the last segment, "" when there is
\* none or the segment starts with its only ".".
extname(p) ==
    LET base == basename(p)
        rest == AfterLast(base, ".")
    IN  IF ~(\E i \in DOMAIN base : base[i] = ".") THEN <<>>
        ELSE IF Len(rest) + 1 = Len(base) THEN <<>>
        ELSE IF base = <<".", ".">> THEN <<>>
        ELSE <<".">> \o rest

\* const mimeTypes = {...} of getMimeType
mimeTypes ==
    << Entry(".jpg", "image/jpeg"), Entry(".jpeg", "image/jpeg"), Entry(".png", "image/png"),
       Entry(".gif", "image/gif"), Entry(".mp4", "video/mp4"), Entry(".webm", "video/webm"),
       Entry(".mp3", "audio/mpeg"), Entry(".wav", "audio/wav"),
       Entry(".pdf", "application/pdf"), Entry(".json", "application/json"),
       Entry(".xml", "text/xml"), Entry(".txt", "text/plain") >>

getMimeType(filePath) ==
    LET ext == Concat(ToLowerCase(extname(filePath)))
    IN  IF MapHas(mimeTypes, ext) THEN MapGet(mimeTypes, ext) ELSE "application/octet-stream"

\* One part of a FormData: a file read from filePath, or a text field.
FilePart(name, filePath, filename, contentType) ==
    [ name |-> name, isFile |-> TRUE, value |-> filePath, filename |-> filename,
      contentType |-> contentType ]
FieldPart(name, text) ==
    [ name |-> name, isFile |-> FALSE, value |-> text, filename |-> <<>>, contentType |-> "" ]

\* A FormData object with these parts.
FormData(parts) == [t |-> "formdata", v |-> parts]

\* The parts so far, or the Error thrown.
Parts(parts) == [thrown |-> FALSE, parts |-> parts, message |-> <<>>]
PartsError(message) == [thrown |-> TRUE, parts |-> <<>>, message |-> message]

\* appendFileToFormData(formData, fieldName, filePath)
appendFileToFormData(fsys, parts, fieldName, filePath) ==
    IF ~existsSync(fsys, filePath) THEN PartsError(<<"File not found: ">> \o filePath)
    ELSE IF ~isFile(fsys, filePath) THEN PartsError(<<"Path is not a file: ">> \o filePath)
    ELSE Parts(Append(parts, FilePart(fieldName, filePath, basename(filePath),
                                      getMimeType(filePath))))

RECURSIVE FilesLoop(_, _, _, _)
\* "for (const filePath of value)" over the members left of an array value.
FilesLoop(fsys, parts, key, members) ==
    IF members = <<>> THEN Parts(parts)
    ELSE IF Head(members).t = "string"
    THEN LET r == appendFileToFormData(fsys, parts, key, Head(members).v)
         IN  IF r.thrown THEN r ELSE FilesLoop(fsys, r.parts, key, Tail(members))
    ELSE PartsError(<<"File path must be a string, got: ", TypeOf(Head(members))>>)

RECURSIVE FieldsLoop(_, _, _, _)
\* "for (const [key, value] of Object.entries(body))" over the entries left.
FieldsLoop(fsys, properties, parts, entries) ==
    IF entries = <<>> THEN Parts(parts)
    ELSE
    LET key == Head(entries).key
        value == Head(entries).value
        fieldSchema == IF PropHas(properties, key) THEN <<PropGet(properties, key)>> ELSE <<>>
        r == IF isFileField(fieldSchema) /\ Truthy(value)
             THEN IF value.t = "array" THEN FilesLoop(fsys, parts, key, value.v)
                  ELSE IF value.t = "string"
                  THEN appendFileToFormData(fsys, parts, key, value.v)
                  ELSE PartsError(<<"File path must be a string, got: ", TypeOf(value)>>)
             ELSE IF TypeOf(value) = "object"
                  THEN Parts(Append(parts, FieldPart(key, JsonStringify(value))))
                  ELSE Parts(Append(parts, FieldPart(key, ToStringChars(value))))
    IN  IF r.thrown THEN r ELSE FieldsLoop(fsys, properties, r.parts, Tail(entries))

\* processMultipartFormData(body, requestBody)
processMultipartFormData(doc, fsys, body, requestBody) ==
    IF ~Truthy(body) \/ TypeOf(body) # "object"
    THEN PartsError(<<"Request body must be an object for multipart/form-data">>)
    ELSE LET s == getRequestBodySchema(doc, requestBody, "multipart/form-data")
             properties == IF s # <<>> /\ s[1].properties # <<>> THEN s[1].properties[1]
                           ELSE <<>>
         IN  FieldsLoop(fsys, properties, <<>>, ObjectEntries(body))

\* formData.getHeaders(): the content type with the boundary the library drew.
FormDataHeaders == <<Entry("content-type", <<"multipart/form-data; boundary=", "boundary">>)>>

-----------------------------------------------------------------------------
(* APIClient.executeOperation *)

\* How the HTTP client settles a request: a response with a status, no
\* response at all (an AxiosError without response: time-out, refused
\* connection), or an error that is not an AxiosError.
Response(status, statusText, data) ==
    [kind |-> "response", status |-> status, statusText |-> statusText, data |-> data,
     message |-> <<"Request failed with status code ">> \o NatToChars(status)]
NoResponse(message) ==
    [kind |-> "noResponse", status |-> 0, statusText |-> <<>>, data |-> Undefined,
     message |-> message]
OtherError(message) ==
    [kind |-> "otherError", status |-> 0, statusText |-> <<>>, data |-> Undefined,
     message |-> message]

\* validateStatus of the HTTP client: the promise resolves for 2xx.
Resolves(answer) == answer.kind = "response" /\ answer.status >= 200 /\ answer.status < 300

\* What executeOperation did: the requests it handed to the HTTP client and
\* what it returned or threw.
Thrown(message, sent) ==
    [ sent |-> sent,
      outcome |-> [kind |-> "threw", message |-> message, status |-> 0, statusText |-> <<>>,
                   data |-> Undefined, url |-> <<>>, method |-> ""] ]
ReturnedResult(answer, config) ==
    [ sent |-> <<config>>,
      outcome |-> [kind |-> "returned", message |-> <<>>, status |-> answer.status,
                   statusText |-> answer.statusText, data |-> answer.data,
                   url |-> config.url, method |-> config.method] ]

\* The try / catch around this.client.request(config).
Exchange(answer, config) ==
    IF Resolves(answer) THEN ReturnedResult(answer, config)
    ELSE IF answer.kind = "otherError" THEN Thrown(answer.message, <<config>>)
    ELSE LET status == IF answer.kind = "response" THEN NatToChars(answer.status)
                       ELSE ToStringChars(Undefined)
             statusText == IF answer.kind = "response" /\ answer.statusText # <<>>
                           THEN answer.statusText ELSE answer.message
             data == IF answer.kind = "response" /\ Truthy(answer.data) THEN answer.data
                     ELSE Object(<<>>)
         IN  Thrown(<<"HTTP ">> \o status \o <<": ">> \o statusText \o <<" - ">>
                   \o JsonStringify(data), <<config>>)

\* The body part of executeOperation: data, headers, or the Error thrown.
BodyResult(data, headers, isFormData) ==
    [thrown |-> FALSE, message |-> <<>>, data |-> data, headers |-> headers,
     isFormData |-> isFormData]
BodyError(message) ==
    [thrown |-> TRUE, message |-> message, data |-> Undefined, headers |-> <<>>,
     isFormData |-> FALSE]

\* The body part once the content type is determined.
ProcessBodyAs(doc, fsys, requestBody, body, headers, contentType) ==
    IF ContentTypeText(contentType) = "multipart/form-data"
    THEN LET formData == processMultipartFormData(doc, fsys, body, requestBody)
         IN  IF formData.thrown THEN BodyError(formData.message)
             ELSE BodyResult(FormData(formData.parts),
                             MapDelete(MapDelete(headers, "Content-Type"), "content-type"),
                             TRUE)
    ELSE LET processed == processRequestBody(body, contentType)
         IN  IF processed.thrown THEN BodyError(processed.message)
             ELSE BodyResult(processed.val,
                             IF Truthy(contentType)
                                /\ ~Truthy(HeaderValue(headers, "Content-Type"))
                             THEN MapSet(headers, "Content-Type", contentType.v)
                             ELSE headers,
                             FALSE)

\* if (requestBody && args.body !== undefined) { ... }
ProcessBody(doc, fsys, requestBody, args, headers) ==
    IF requestBody # <<>> /\ Lookup(args, "body").t # "undefined"
    THEN ProcessBodyAs(doc, fsys, requestBody[1], Lookup(args, "body"), headers,
                       determineContentType(requestBody[1], headers))
    ELSE BodyResult(Undefined, headers, FALSE)

\* const config = {...}, with the headers of the FormData merged in.
RequestConfig(operationInfo, st, b) ==
    [ method |-> operationInfo.method,
      url |-> st.url,
      params |-> st.queryParams,
      headers |-> IF b.isFormData
                  THEN Spread(Spread(ClientCommonHeaders, b.headers), FormDataHeaders)
                  ELSE Spread(ClientCommonHeaders, b.headers),
      data |-> b.data ]

\* executeOperation after the request body: b is what the body part gave.
AfterBody(answer, operationInfo, st, b) ==
    IF b.thrown THEN Thrown(b.message, <<>>)
    ELSE Exchange(answer, RequestConfig(operationInfo, st, b))

\* executeOperation after the parameter loop: st is the state the loop left.
AfterParameters(doc, fsys, answer, operationInfo, args, st) ==
    IF st.thrown THEN Thrown(st.message, <<>>)
    ELSE IF Len(st.missingRequiredParams) > 0
    THEN Thrown(<<"Missing required parameters: ">>
                \o JoinWith(st.missingRequiredParams, <<", ">>), <<>>)
    ELSE AfterBody(answer, operationInfo, st,
                   ProcessBody(doc, fsys, operationInfo.requestBody, args, st.headers))

\* executeOperation on an operation of the catalog.
Execute(doc, base, fsys, answer, operationInfo, args) ==
    AfterParameters(doc, fsys, answer, operationInfo, args,
        ParamLoop(operationInfo.parameters, args,
                  LoopState(base \o operationInfo.path, <<>>, <<>>, <<>>, FALSE, <<>>)))

\* executeOperation with a message that leaves the identifier out.
executeUnnamed(doc, ops, base, fsys, answer, operationId, args) ==
    IF ~MapHas(ops, operationId)
    THEN Thrown(<<"Operation not found">>, <<>>)
    ELSE Execute(doc, base, fsys, answer, MapGet(ops, operationId), args)

\* executeOperation(operationId, args) on the client with catalog ops and
\* base URL base, the document doc, the file system fsys, the HTTP client
\* settling the request as answer.
executeOperation(doc, ops, base, fsys, answer, operationId, args) ==
    IF ~MapHas(ops, operationId)
    THEN Thrown(<<"Operation ", operationId, " not found">>, <<>>)
    ELSE Execute(doc, base, fsys, answer, MapGet(ops, operationId), args)

-----------------------------------------------------------------------------
(* The generator scenario: one document, one generateTools call. *)

\* The client side of the state while only the generator runs.
ClientIdle ==
    /\ options = [baseUrl |-> <<>>]
    /\ baseUrl = <<>>
    /\ operations = <<>>
    /\ call = [operationId |-> "", args |-> <<>>]
    /\ fs = <<>>
    /\ remote = "none"
    /\ requests = <<>>
    /\ outcome = [kind |-> "none"]
    /\ frames = <<>>

InitGen ==
    /\ schema \in GenDocs \cup PathsDocs \cup ContentDocs
    /\ pc = "loaded"
    /\ tools = <<>>
    /\ genThrown = FALSE
    /\ toolMetadata = <<>>
    /\ resolutionStack = {}
    /\ ClientIdle

\* What a generateTools call leaves in the generator: g is what the loops gave.
StoreGenerated(g) ==
    /\ tools' = g.tools
    /\ genThrown' = g.thrown
    /\ toolMetadata' = g.toolMetadata
    /\ resolutionStack' = g.stack

\* OpenAPIMCPServer calls toolGenerator.generateTools(schema) once the
\* document is loaded.
GenerateTools ==
    /\ pc = "loaded"
    /\ StoreGenerated(generateTools(schema))
    /\ pc' = "generated"
    /\ UNCHANGED <<schema, options, baseUrl, operations, call, fs, remote, requests, outcome,
                   frames>>

NextGen == GenerateTools

SpecGen == InitGen /\ [][NextGen]_vars

-----------------------------------------------------------------------------
(* The client scenario: one document, initialize, one executeOperation call. *)

\* Text as the sequence of its characters, for the arguments of a call.
Chars(text) ==
    CASE text = "" -> <<>>
      [] text = "12" -> <<"1", "2">>
      [] text = " 42 " -> <<" ", "4", "2", " ">>
      [] text = "+5" -> <<"+", "5">>
      [] text = "-3" -> <<"-", "3">>
      [] text = "abc" -> <<"a", "b", "c">>
      [] text = "Infinity" -> InfinityChars
      [] text = "-Infinity" -> <<"-">> \o InfinityChars
      [] text = "true" -> <<"t", "r", "u", "e">>
      [] text = "TRUE" -> <<"T", "R", "U", "E">>
      [] text = "TrUe" -> <<"T", "r", "U", "e">>
      [] text = "false" -> <<"f", "a", "l", "s", "e">>
      [] text = "False" -> <<"F", "a", "l", "s", "e">>
      [] text = "yes" -> <<"y", "e", "s">>
      [] text = " true" -> <<" ", "t", "r", "u", "e">>
      [] text = "1" -> <<"1">>
      [] text = "[\"a\", \"b\"]" -> <<"[", "\"", "a", "\"", ",", " ", "\"", "b", "\"", "]">>
      [] text = "[1,2]" -> <<"[", "1", ",", "2", "]">>
      [] text = " [ ] " -> <<" ", "[", " ", "]", " ">>
      [] text = "[1," -> <<"[", "1", ",">>
      [] text = "[a]" -> <<"[", "a", "]">>
      [] text = "a,b,c" -> <<"a", ",", "b", ",", "c">>
      [] text = " a , b c,, d " -> <<" ", "a", " ", ",", " ", "b", " ", "c", ",", ",", " ", "d", " ">>
      [] text = "a" -> <<"a">>
      [] text = "\"x\"" -> <<"\"", "x", "\"">>
      [] text = "null" -> <<"n", "u", "l", "l">>
      [] text = "t1" -> <<"t", "1">>
      [] text = "a/b c" -> <<"a", "/", "b", " ", "c">>
      [] text = "/t/a.JPG" -> <<"/", "t", "/", "a", ".", "J", "P", "G">>
      [] text = "/t/b.png" -> <<"/", "t", "/", "b", ".", "p", "n", "g">>
      [] text = "/t/notes" -> <<"/", "t", "/", "n", "o", "t", "e", "s">>
      [] text = "/t" -> <<"/", "t">>
      [] text = "/t/" -> <<"/", "t", "/">>
      [] text = "/t/no.txt" -> <<"/", "t", "/", "n", "o", ".", "t", "x", "t">>

Str(text) == String(Chars(text))

\* The file system of the scenario: two images, a file without extension, and
\* the directory that holds them ("/t/no.txt" does not exist).
Files ==
    << FsEntry(Chars("/t/a.JPG"), "file"), FsEntry(Chars("/t/b.png"), "file"),
       FsEntry(Chars("/t/notes"), "file"), FsEntry(Chars("/t"), "directory"),
       FsEntry(Chars("/t/"), "directory") >>

\* The upload form of the client documents: a file, several files, a plain
\* field, and a field that only its description marks as a file.
ApiUploadForm ==
    [Blank EXCEPT !.type = "object",
                  !.properties = << <<Prop("file", Bin), Prop("photos", ArrOf(Bin)),
                                      Prop("name", StrSchema),
                                      Prop("scan", [StrSchema EXCEPT !.description =
                                                      <<"Local ", "File Path", " of the scan">>])>> >>]

\* An upload form whose file field is a reference to a binary definition.
ApiReferenceForm ==
    [Blank EXCEPT !.type = "object",
                  !.properties = << <<Prop("file", Ref(RefTo("C"))), Prop("name", StrSchema)>> >>]

ApiOperation(operationId, parameters, requestBody) ==
    [NoOperation EXCEPT !.operationId = operationId, !.parameters = parameters,
                        !.requestBody = requestBody, !.responses = << <<"2", "0", "0">> >>]

\* The document of the client scenario: servers is schema.servers (their
\* urls), upload the schema of the multipart body of uploadFile.
ApiDoc(servers, upload) ==
    [ hasComponents |-> TRUE,
      schemas |-> <<Prop("A", ApiUploadForm), Prop("B", RefA), Prop("C", Bin),
                    Prop("Count", IntSchema), Prop("Flag", [Blank EXCEPT !.type = "boolean"]),
                    Prop("List", ArrOf(StrSchema))>>,
      servers |-> servers,
      paths |-> <<
        [ path |-> <<"/", "users", "/", "{", "id", "}">>,
          parameters |-> <<Param("id", "path", TRUE, <<IntSchema>>)>>,
          ops |-> << [method |-> "get", operation |->
                       ApiOperation("getUserById",
                          << Param("limit", "query", FALSE, <<[Blank EXCEPT !.type = "number"]>>),
                             Param("verbose", "query", FALSE, <<[Blank EXCEPT !.type = "boolean"]>>),
                             Param("X-Trace", "header", TRUE, <<StrSchema>>),
                             Param("session", "cookie", FALSE, <<StrSchema>>) >>,
                          <<>>)] >> ],
        [ path |-> <<"/", "test">>, parameters |-> <<>>,
          ops |-> << [method |-> "get", operation |->
                       ApiOperation("testTypes",
                          << Param("boolParam", "query", FALSE, <<[Blank EXCEPT !.type = "boolean"]>>),
                             Param("arrayParam", "query", FALSE, <<ArrOf(StrSchema)>>),
                             Param("rawParam", "query", FALSE, <<>>) >>,
                          <<>>)] >> ],
        [ path |-> <<"/", "twins">>, parameters |-> <<>>,
          ops |-> << [method |-> "get", operation |->
                       ApiOperation("twinTypes",
                          << Param("count", "query", FALSE, <<Ref(RefTo("Count"))>>),
                             Param("flag", "query", FALSE, <<Ref(RefTo("Flag"))>>),
                             Param("list", "query", FALSE, <<Ref(RefTo("List"))>>) >>,
                          <<>>)] >> ],
        [ path |-> <<"/", "session">>, parameters |-> <<>>,
          ops |-> << [method |-> "get", operation |->
                       ApiOperation("getSession",
                          << Param("token", "cookie", TRUE, <<StrSchema>>),
                             Param("detail", "query", TRUE, <<[Blank EXCEPT !.type = "boolean"]>>),
                             Param("page", "cookie", FALSE, <<IntSchema>>) >>,
                          <<>>)] >> ],
        [ path |-> <<"/", "upload">>, parameters |-> <<>>,
          ops |-> << [method |-> "post", operation |->
                       ApiOperation("uploadFile", <<>>,
                          <<Body(<<>>, <<Media("multipart/form-data", <<upload>>)>>)>>)] >> ],
        [ path |-> <<"/", "users">>, parameters |-> <<>>,
          ops |-> << [method |-> "get", operation |-> ApiOperation("", <<>>, <<>>)],
                     [method |-> "post", operation |->
                       ApiOperation("createUser", <<>>,
                          <<Body(<<TRUE>>,
                                 << Media("application/x-www-form-urlencoded", <<ObjOf(StrSchema)>>),
                                    Media("application/json", <<ObjOf(StrSchema)>>) >>)>>)] >> ] >> ]

ServerUrl == <<"https://api.example.com">>

\* A server URL with a server variable, as schema.servers[0].url holds it: the
\* variable has the name of the path parameter of getUserById.
TemplatedServerUrl == <<"https://", "{", "id", "}", ".example.com">>

\* A server whose url is the empty string.
RelativeServerUrl == <<>>

\* args with the entries whose value is given (an omitted argument has none).
Args(entries) == SelectSeq(entries, LAMBDA e : e.value.t # "undefined")

Call(operationId, entries) == [operationId |-> operationId, args |-> Args(entries)]

\* Arguments tried for an integer / number parameter.
NumberArgs ==
    { Num(7), Num(0), Num(-3), NaN, PlusInfinity, MinusInfinity,
      Str("12"), Str(" 42 "), Str("+5"), Str("-3"), Str(""), Str("abc"), Str("Infinity"),
      Str("-Infinity"), Str("a/b c"), Bool(TRUE), Array(<<>>), Array(<<Str("12")>>),
      Array(<<Num(1), Num(2)>>), Object(<<>>) }

\* Arguments tried for a boolean parameter.
BooleanArgs ==
    { Bool(TRUE), Bool(FALSE), Str("true"), Str("TRUE"), Str("TrUe"), Str("false"),
      Str("False"), Str("yes"), Str("1"), Str(""), Str(" true"), Num(1), Num(0),
      Array(<<Bool(TRUE)>>), Object(<<>>) }

\* Arguments tried for an array parameter.
ArrayArgs ==
    { Array(<<>>), Array(<<Num(1), Str("a")>>), Array(<<Array(<<>>), Null>>),
      Str("[\"a\", \"b\"]"), Str("[1,2]"), Str(" [ ] "), Str("[1,"), Str("[a]"),
      Str("a,b,c"), Str(" a , b c,, d "), Str("a"), Str(""), Str("12"), Str("true"),
      Str("\"x\""), Str("null"), Num(5), Bool(TRUE), Object(<<>>) }

\* An argument left out, or given as undefined or null.
Omitted == {Undefined, Null}

UserCalls ==
    { Call("getUserById", <<Entry("id", id), Entry("limit", limit), Entry("verbose", verbose),
                            Entry("X-Trace", trace), Entry("session", session)>>) :
        id \in NumberArgs \cup Omitted,
        limit \in {Undefined, Str("12"), Str("abc")},
        verbose \in {Undefined, Bool(TRUE), Str("yes")},
        trace \in {Undefined, Null, Str("t1")},
        session \in {Undefined, Str("abc")} }

TestCalls ==
    { Call("testTypes", <<Entry("boolParam", b), Entry("arrayParam", a), Entry("rawParam", r)>>) :
        b \in BooleanArgs \cup Omitted,
        a \in {Undefined, Str("a,b,c")},
        r \in {Undefined, Num(7)} }
    \cup
    { Call("testTypes", <<Entry("arrayParam", a), Entry("boolParam", b)>>) :
        a \in ArrayArgs \cup Omitted,
        b \in {Undefined, Str("TRUE"), Str("yes")} }

\* Values tried for the field of one file.
FileValues ==
    { Undefined, Str("/t/a.JPG"), Str("/t/notes"), Str("/t"), Str("/t/"), Str("/t/no.txt"),
      Str(""), Num(5), Num(0), Bool(TRUE), Bool(FALSE), Null, Object(<<>>),
      Array(<<Str("/t/b.png")>>) }

\* Values tried for the field of several files.
PhotosValues ==
    { Undefined, Array(<<Str("/t/a.JPG"), Str("/t/b.png")>>),
      Array(<<Str("/t/a.JPG"), Str("/t/no.txt")>>), Array(<<Str("/t"), Str("/t/b.png")>>),
      Array(<<Str("/t/b.png"), Num(1)>>), Array(<<>>), Str("/t/b.png") }

UploadBodies ==
    { Object(Args(<<Entry("name", name), Entry("file", file), Entry("photos", photos),
                    Entry("scan", scan)>>)) :
        name \in {Undefined, Str("abc"), Object(<<Entry("a", Num(1))>>)},
        file \in FileValues, photos \in PhotosValues,
        scan \in {Undefined, Str("/t/notes"), Str("/t/no.txt")} }
    \cup
    { Object(<<Entry("file", file), Entry("name", Str("abc"))>>) : file \in FileValues \ {Undefined} }
    \cup { Null, Str("abc"), Num(0), Array(<<Str("/t/a.JPG")>>) }

UploadCalls == { Call("uploadFile", <<Entry("body", body)>>) : body \in UploadBodies }

\* Calls of identifiers that the catalog does not hold: a name of no
\* operation, names that differ from a key in one character or in case, the
\* empty name; with arguments that an operation of the catalog would accept,
\* reject or miss.
UnknownCalls ==
    { Call(operationId, entries) :
        operationId \in {"unknownOperation", "get_users", "getuserbyid", ""},
        entries \in { <<>>,
                      <<Entry("id", Num(7)), Entry("X-Trace", Str("t1"))>>,
                      <<Entry("id", Str("abc"))>>,
                      <<Entry("body", Object(<<Entry("file", Str("/t/no.txt"))>>))>> } }

\* Calls of twinTypes, whose parameters have their schemas by reference.
TwinCalls ==
    { Call("twinTypes", <<Entry("count", count), Entry("flag", flag), Entry("list", list)>>) :
        count \in {Undefined, Num(7), Str("12"), Str("abc")},
        flag \in {Undefined, Bool(TRUE), Str("TRUE"), Str("yes")},
        list \in {Undefined, Str("a,b,c"), Array(<<Str("abc")>>), Num(5)} }

\* Calls of getSession, which declares a required and an optional cookie.
CookieCalls ==
    { Call("getSession", <<Entry("detail", detail), Entry("token", token), Entry("page", page)>>) :
        detail \in {Undefined, Str("true")},
        token \in {Undefined, Str("abc")},
        page \in {Undefined, Num(7), Str("abc")} }

\* Calls of createItem with a body, with and without a Content-Type header.
ContentCalls ==
    { Call("createItem", <<Entry("body", Object(<<Entry("name", Str("abc"))>>)),
                           Entry("Content-Type", header)>>) :
        header \in {Undefined, String(<<"text/csv">>), String(<<"multipart/form-data">>)} }

\* Calls of createItem with a body and a content type header under one
\* spelling of its name.
SpellingCalls ==
    { Call("createItem", <<Entry("body", Object(<<Entry("name", Str("abc"))>>)),
                           Entry(ContentTypeSpellings[k], String(<<type>>))>>) :
        k \in DOMAIN ContentTypeSpellings,
        type \in {"application/json", "multipart/form-data", "text/csv"} }

\* Calls that reach the HTTP exchange.
GoodCalls ==
    { Call("getUserById", <<Entry("id", Num(7)), Entry("X-Trace", Str("t1"))>>),
      Call("getUserById", <<Entry("id", Str("12")), Entry("limit", Num(7)),
                            Entry("X-Trace", Str("a/b c"))>>),
      Call("testTypes", <<>>),
      Call("get__users", <<>>),
      Call("uploadFile", <<Entry("body", Object(<<Entry("file", Str("/t/a.JPG"))>>))>>),
      Call("createUser", <<Entry("body", Object(<<Entry("file", Str("a/b c")),
                                                   Entry("name", Num(7))>>))>>),
      Call("createUser", <<Entry("body", Str("[1,2]"))>>),
      Call("createUser", <<Entry("body", Str("[1,"))>>),
      Call("unknownOperation", <<>>) }

\* How the remote service and the transport answer.
Answers ==
    { Response(200, <<"OK">>, Object(<<Entry("id", Num(1))>>)),
      Response(204, <<"No Content">>, Str("")),
      Response(404, <<"Not Found">>, Object(<<Entry("error", String(<<"User not found">>))>>)),
      Response(500, <<>>, Str("")),
      Response(503, <<"Service Unavailable">>, Undefined),
      NoResponse(<<"timeout of 30000ms exceeded">>),
      OtherError(<<"Network error">>) }

WithBaseUrl == [baseUrl |-> <<"http://localhost:8080">>]
WithoutBaseUrl == [baseUrl |-> <<>>]

\* The scenarios tried: parameter handling, multipart assembly, and the HTTP
\* exchange with the set-up of the client.
ParameterScenario ==
    /\ schema = ApiDoc(<<ServerUrl>>, ApiUploadForm)
    /\ options = WithoutBaseUrl
    /\ call \in UserCalls \cup TestCalls \cup UnknownCalls \cup CookieCalls \cup TwinCalls
    /\ remote = Response(200, <<"OK">>, Null)

UploadScenario ==
    /\ schema \in { ApiDoc(<<ServerUrl>>, upload) : upload \in {ApiUploadForm, RefA, RefB, RefMissing, ApiReferenceForm} }
    /\ options = WithoutBaseUrl
    /\ call \in UploadCalls
    /\ remote = Response(200, <<"OK">>, Null)

ContentScenario ==
    /\ schema \in ContentDocs
    /\ options = WithoutBaseUrl
    /\ call \in ContentCalls
    /\ remote = Response(200, <<"OK">>, Null)

SpellingScenario ==
    /\ schema \in { ContentDoc(listed) :
                        listed \in { <<"multipart/form-data">>, <<"text/csv">>,
                                     <<"image/png", "multipart/form-data">> } }
    /\ options = WithoutBaseUrl
    /\ call \in SpellingCalls
    /\ remote = Response(200, <<"OK">>, Null)

ExchangeScenario ==
    /\ schema \in { ApiDoc(servers, ApiUploadForm) :
                        servers \in {<<>>, <<ServerUrl>>, <<TemplatedServerUrl, ServerUrl>>,
                                     <<RelativeServerUrl>>} }
    /\ options \in {WithBaseUrl, WithoutBaseUrl}
    /\ call \in GoodCalls
    /\ remote \in Answers

\* No call has settled yet.
NoOutcome ==
    [kind |-> "none", message |-> <<>>, status |-> 0, statusText |-> <<>>,
     data |-> Undefined, url |-> <<>>, method |-> ""]

\* The generator side of the state while only the client runs.
GeneratorIdle ==
    /\ tools = <<>>
    /\ genThrown = FALSE
    /\ toolMetadata = <<>>
    /\ resolutionStack = {}

InitClient ==
    /\ \/ ParameterScenario \/ UploadScenario \/ ExchangeScenario
       \/ ContentScenario \/ SpellingScenario
    /\ pc = "created"
    /\ baseUrl = <<>>
    /\ operations = <<>>
    /\ fs = Files
    /\ requests = <<>>
    /\ outcome = NoOutcome
    /\ frames = <<>>
    /\ GeneratorIdle

\* OpenAPIMCPServer.start: apiClient.initialize(schema)
Initialize ==
    /\ pc = "created"
    /\ LET r == initialize(options, schema, operations, baseUrl)
       IN  /\ baseUrl' = r.baseUrl
           /\ operations' = r.operations
           /\ pc' = IF r.thrown THEN "initFailed" ELSE "ready"
           /\ outcome' = IF r.thrown THEN [NoOutcome EXCEPT !.kind = "threw", !.message = r.message]
                         ELSE outcome
    /\ UNCHANGED <<schema, tools, genThrown, toolMetadata, resolutionStack, options, call, fs,
                   remote, requests, frames>>

\* The CallTool handler: apiClient.executeOperation(name, args), the HTTP
\* exchange included.
ExecuteOperation ==
    /\ pc = "ready"
    /\ LET r == executeOperation(schema, operations, baseUrl, fs, remote,
                                 call.operationId, call.args)
       IN  /\ requests' = requests \o r.sent
           /\ outcome' = r.outcome
    /\ pc' = "done"
    /\ UNCHANGED <<schema, tools, genThrown, toolMetadata, resolutionStack, options, baseUrl,
                   operations, call, fs, remote, frames>>

NextClient == Initialize \/ ExecuteOperation

SpecClient == InitClient /\ [][NextClient]_vars

-----------------------------------------------------------------------------
(* APIClient.executeOperation, await by await *)

\* One executeOperation call in flight: its arguments, how the HTTP client will
\* settle its request, its locals (url, queryParams, headers, method; the
\* properties, the formData and the loop positions of processMultipartFormData),
\* the requests it handed to the HTTP client, and its result.  pc is "called"
\* before its first statement, "assembling" at an await of
\* appendFileToFormData, "assembled" at the await of processMultipartFormData
\* when that has returned, "awaiting" at the await of client.request, "done"
\* when the promise is settled.
Frame(operationId, args, answer) ==
    [ operationId |-> operationId, args |-> args, answer |-> answer, pc |-> "called",
      url |-> <<>>, queryParams |-> <<>>, headers |-> <<>>, method |-> "",
      properties |-> <<>>, parts |-> <<>>, entries |-> <<>>, members |-> <<>>,
      inArray |-> FALSE, sent |-> <<>>, outcome |-> NoOutcome ]

\* The call ends with the Error thrown.
Reject(f, message) ==
    [f EXCEPT !.pc = "done", !.outcome = Thrown(message, <<>>).outcome]

RECURSIVE AssembleRun(_, _)
\* The loops of processMultipartFormData from where the frame stands up to
\* the next await of appendFileToFormData (the file is validated and appended
\* before the await yields), to the return, or to the Error thrown.
AssembleRun(fsys, f) ==
    IF f.inArray
    THEN IF f.members = <<>>
         THEN AssembleRun(fsys, [f EXCEPT !.inArray = FALSE, !.entries = Tail(@)])
         ELSE IF Head(f.members).t = "string"
         THEN LET r == appendFileToFormData(fsys, f.parts, Head(f.entries).key,
                                            Head(f.members).v)
              IN  IF r.thrown THEN Reject(f, r.message)
                  ELSE [f EXCEPT !.parts = r.parts, !.members = Tail(@)]
         ELSE Reject(f, <<"File path must be a string, got: ", TypeOf(Head(f.members))>>)
    ELSE IF f.entries = <<>> THEN [f EXCEPT !.pc = "assembled"]
    ELSE
    LET key == Head(f.entries).key
        value == Head(f.entries).value
        fieldSchema == IF PropHas(f.properties, key) THEN <<PropGet(f.properties, key)>>
                       ELSE <<>>
    IN  IF isFileField(fieldSchema) /\ Truthy(value)
        THEN IF value.t = "array"
             THEN AssembleRun(fsys, [f EXCEPT !.inArray = TRUE, !.members = value.v])
             ELSE IF value.t = "string"
             THEN LET r == appendFileToFormData(fsys, f.parts, key, value.v)
                  IN  IF r.thrown THEN Reject(f, r.message)
                      ELSE [f EXCEPT !.parts = r.parts, !.entries = Tail(@)]
             ELSE Reject(f, <<"File path must be a string, got: ", TypeOf(value)>>)
        ELSE AssembleRun(fsys,
                [f EXCEPT !.parts = Append(@, FieldPart(key,
                                        IF TypeOf(value) = "object" THEN JsonStringify(value)
                                        ELSE ToStringChars(value))),
                          !.entries = Tail(@)])

\* The properties of the multipart body schema, {} when there is none.
MultipartProperties(s) ==
    IF s # <<>> /\ s[1].properties # <<>> THEN s[1].properties[1] ELSE <<>>

\* processMultipartFormData(args.body, requestBody) up to its first await.
BeginMultipart(doc, fsys, f, requestBody, body) ==
    IF ~Truthy(body) \/ TypeOf(body) # "object"
    THEN Reject(f, <<"Request body must be an object for multipart/form-data">>)
    ELSE AssembleRun(fsys,
            [f EXCEPT !.pc = "assembling",
                      !.properties = MultipartProperties(
                          getRequestBodySchema(doc, requestBody, "multipart/form-data")),
                      !.entries = ObjectEntries(body)])

\* this.client.request(config) is called: the request is out, the call awaits.
Request(f, config) == [f EXCEPT !.pc = "awaiting", !.sent = Append(@, config)]

\* The body that is not multipart, then the request.
BeginPlain(f, operationInfo, st, b) ==
    IF b.thrown THEN Reject(f, b.message)
    ELSE Request(f, RequestConfig(operationInfo, st, b))

\* executeOperation from the missing-parameters check on: st is the state the
\* parameter loop left.
BeginBody(doc, fsys, f, operationInfo, st) ==
    IF st.thrown THEN Reject(f, st.message)
    ELSE IF Len(st.missingRequiredParams) > 0
    THEN Reject(f, <<"Missing required parameters: ">>
                   \o JoinWith(st.missingRequiredParams, <<", ">>))
    ELSE IF /\ operationInfo.requestBody # <<>>
            /\ Lookup(f.args, "body").t # "undefined"
            /\ ContentTypeText(determineContentType(operationInfo.requestBody[1], st.headers))
                  = "multipart/form-data"
    THEN BeginMultipart(doc, fsys,
            [f EXCEPT !.url = st.url, !.queryParams = st.queryParams,
                      !.headers = st.headers, !.method = operationInfo.method],
            operationInfo.requestBody[1], Lookup(f.args, "body"))
    ELSE BeginPlain(f, operationInfo, st,
                    ProcessBody(doc, fsys, operationInfo.requestBody, f.args, st.headers))

\* executeOperation from its first statement to its first await.
BeginCall(doc, ops, base, fsys, f) ==
    IF ~MapHas(ops, f.operationId)
    THEN Reject(f, <<"Operation ", f.operationId, " not found">>)
    ELSE BeginBody(doc, fsys, f, MapGet(ops, f.operationId),
            ParamLoop(MapGet(ops, f.operationId).parameters, f.args,
                      LoopState(base \o MapGet(ops, f.operationId).path,
                                <<>>, <<>>, <<>>, FALSE, <<>>)))

\* The FormData of all the calls in flight taken for the one of call c, as if
\* it were kept in a field of the client.
ClientFormData(fr, c) == Flatten([i \in DOMAIN fr |-> fr[i].parts])

\* const formData = new FormData(): the FormData that call c assembled.
LocalFormData(fr, c) == fr[c].parts

\* After "await this.processMultipartFormData(...)": body = formData, the
\* Content-Type headers are deleted, config is built and the request made.
SendAssembled(fr, c) ==
    Request(fr[c],
            RequestConfig(fr[c], fr[c],
                BodyResult(FormData(LocalFormData(fr, c)),
                           MapDelete(MapDelete(fr[c].headers, "Content-Type"), "content-type"),
                           TRUE)))

\* A failed request made once more.
SettleWithRetry(f) ==
    IF ~Resolves(f.answer) /\ Len(f.sent) < 2
    THEN [f EXCEPT !.sent = Append(@, f.sent[1])]
    ELSE [f EXCEPT !.pc = "done", !.outcome = Exchange(f.answer, f.sent[1]).outcome]

\* After "await this.client.request(config)": the result is returned, or the
\* error thrown.
SettleCall(f) ==
    [f EXCEPT !.pc = "done", !.outcome = Exchange(f.answer, f.sent[1]).outcome]

-----------------------------------------------------------------------------
(* The concurrent scenario: one client, two executeOperation calls in flight. *)

\* The calls made concurrently: uploads with one, three and no file to
\* await, uploads that fail at the first or after the first file, bodies that
\* cannot be assembled, calls without a body that pass or fail, and a call of
\* an unknown operation.
ConcurrentCalls ==
    { Call("uploadFile", <<Entry("body", Object(<<Entry("name", Str("abc")),
                                                  Entry("file", Str("/t/a.JPG")),
                                                  Entry("photos", Array(<<Str("/t/a.JPG"),
                                                                          Str("/t/b.png")>>))>>))>>),
      Call("uploadFile", <<Entry("body", Object(<<Entry("file", Str("/t/notes"))>>))>>),
      Call("uploadFile", <<Entry("body", Object(<<Entry("name", Num(7))>>))>>),
      Call("uploadFile", <<Entry("body", Object(<<Entry("file", Str("/t/no.txt"))>>))>>),
      Call("uploadFile", <<Entry("body", Object(<<Entry("photos", Array(<<Str("/t/b.png"),
                                                                          Str("/t")>>))>>))>>),
      Call("uploadFile", <<Entry("body", Object(<<Entry("photos", Array(<<Str("/t/b.png"),
                                                                          Num(1)>>))>>))>>),
      Call("uploadFile", <<Entry("body", Str("abc"))>>),
      Call("createUser", <<Entry("body", Str("[1,"))>>),
      Call("createUser", <<Entry("body", Object(<<Entry("name", Str("abc"))>>))>>),
      Call("getUserById", <<Entry("id", Str("12")), Entry("X-Trace", Str("t1"))>>),
      Call("getUserById", <<Entry("limit", Num(7))>>),
      Call("testTypes", <<Entry("boolParam", Str("yes"))>>),
      Call("unknownOperation", <<>>) }

\* How the requests of the concurrent calls are settled.
ConcurrentAnswers ==
    { Response(200, <<"OK">>, Object(<<Entry("id", Num(1))>>)),
      Response(404, <<"Not Found">>, Object(<<>>)),
      NoResponse(<<"timeout of 30000ms exceeded">>) }

InitCalls ==
    /\ schema = ApiDoc(<<ServerUrl>>, ApiUploadForm)
    /\ options = WithoutBaseUrl
    /\ call = [operationId |-> "", args |-> <<>>]
    /\ remote = Response(200, <<"OK">>, Null)
    /\ pc = "created"
    /\ baseUrl = <<>>
    /\ operations = <<>>
    /\ fs = Files
    /\ requests = <<>>
    /\ outcome = NoOutcome
    /\ \E a \in ConcurrentCalls, b \in ConcurrentCalls :
          \E x \in ConcurrentAnswers, y \in ConcurrentAnswers :
              frames = << Frame(a.operationId, a.args, x), Frame(b.operationId, b.args, y) >>
    /\ GeneratorIdle

\* Call c moves to the frame f: the requests it made on the way are handed to
\* the HTTP client, nothing else changes.
StepTo(c, f) ==
    /\ frames' = [frames EXCEPT ![c] = f]
    /\ requests' = requests \o SubSeq(f.sent, Len(frames[c].sent) + 1, Len(f.sent))
    /\ UNCHANGED <<schema, pc, tools, genThrown, toolMetadata, resolutionStack, options,
                   baseUrl, operations, call, fs, remote, outcome>>

\* The CallTool handler calls executeOperation: the call runs to its first await.
Begin(c) ==
    /\ pc = "ready"
    /\ frames[c].pc = "called"
    /\ StepTo(c, BeginCall(schema, operations, baseUrl, fs, frames[c]))

\* The call resumes after an await of appendFileToFormData.
Resume(c) ==
    /\ frames[c].pc = "assembling"
    /\ StepTo(c, AssembleRun(fs, frames[c]))

\* The call resumes after the await of processMultipartFormData.
Send(c) ==
    /\ frames[c].pc = "assembled"
    /\ StepTo(c, SendAssembled(frames, c))

\* The HTTP client settles the request of the call.
Settle(c) ==
    /\ frames[c].pc = "awaiting"
    /\ StepTo(c, SettleCall(frames[c]))

NextCalls ==
    \/ Initialize
    \/ \E c \in DOMAIN frames : Begin(c)
    \/ \E c \in DOMAIN frames : Resume(c)
    \/ \E c \in DOMAIN frames : Send(c)
    \/ \E c \in DOMAIN frames : Settle(c)

SpecCalls == InitCalls /\ [][NextCalls]_vars

-----------------------------------------------------------------------------
(* Reading the state: helpers of the properties below. *)

Generated == pc = "generated"

\* generateTools returned its list (it did not end by an exception).
GenReturned == pc = "generated" /\ ~genThrown

\* The operations of the loaded document, in the order generateTools visits them.
Entries == PathsLoop(schema.paths)

\* The raw schema behind tool property key of the i-th operation: the primary
\* request body schema for "body", else the schema of the parameter.
RawBodySchema(e) ==
    LET content == e.operation.requestBody[1].content[1]
    IN  ContentAt(content, getSupportedContentTypes(content)[1])[1].schema[1]

RECURSIVE RefsOf(_)
\* The "$ref" strings written in a raw schema node, at any depth.
RefsOf(n) ==
    (IF HasRef(n) THEN {n.ref} ELSE {})
    \cup (IF n.properties # <<>>
          THEN UNION { RefsOf(n.properties[1][i].schema) : i \in DOMAIN n.properties[1] }
          ELSE {})
    \cup (IF n.items # <<>> THEN RefsOf(n.items[1]) ELSE {})
    \cup (IF n.additionalProperties # <<>> /\ ~n.additionalProperties[1].isBool
          THEN RefsOf(n.additionalProperties[1].s[1]) ELSE {})
    \cup (IF n.oneOf # <<>> THEN UNION { RefsOf(n.oneOf[1][i]) : i \in DOMAIN n.oneOf[1] } ELSE {})
    \cup (IF n.anyOf # <<>> THEN UNION { RefsOf(n.anyOf[1][i]) : i \in DOMAIN n.anyOf[1] } ELSE {})
    \cup (IF n.allOf # <<>> THEN UNION { RefsOf(n.allOf[1][i]) : i \in DOMAIN n.allOf[1] } ELSE {})

\* The raw schemas the operations of the document start from.
OperationSchemas(doc) ==
    UNION { LET e == PathsLoop(doc.paths)[i]
                ps == e.pathParameters \o e.operation.parameters
            IN  { ps[j].schema[1] : j \in { k \in DOMAIN ps : ps[k].schema # <<>> } }
                \cup (IF e.operation.requestBody # <<>> THEN {RawBodySchema(e)} ELSE {})
          : i \in DOMAIN PathsLoop(doc.paths) }

\* Every "$ref" string written anywhere in the document.
RefsIn(doc) ==
    UNION { RefsOf(n) : n \in OperationSchemas(doc) }
    \cup UNION { RefsOf(doc.schemas[i].schema) : i \in DOMAIN doc.schemas }

\* ref is "#/components/schemas/<name>" for a definition the document holds:
\* the references of this model that can be resolved.
NamesDefinition(doc, ref) ==
    doc.hasComponents /\ \E i \in DOMAIN doc.schemas : ref = RefTo(doc.schemas[i].key)

-----------------------------------------------------------------------------
(* C1 *)

\* C1: for every finite document generateTools terminates (it returns its
\* list: no unbounded recursion in resolveSchema or in isFileUploadSchema),
\* and a reference met while it is itself being resolved resolves to the
\* placeholder {type: object, additionalProperties: true, description
\* flagging the circular reference}.
C1_GenerationTerminatesOnCycles ==
    Generated =>
        /\ ~genThrown
        /\ \A r \in RefsIn(schema) :
              NamesDefinition(schema, r) =>
                  resolveSchema(schema, Ref(r), {r}) = Returned(CircularPlaceholder(r), {r})

-----------------------------------------------------------------------------
(* C4 *)

\* C4: every reference that cannot be resolved (a pointer segment is missing,
\* or the reference does not point into the document) resolves to the
\* placeholder naming it, nothing is raised, and every operation of the
\* document still gets its tool.
C4_UnresolvedReferenceDegrades ==
    Generated =>
        \A r \in RefsIn(schema) :
            ~NamesDefinition(schema, r) =>
                /\ resolveSchema(schema, Ref(r), {}) = Returned(UnresolvedPlaceholder(r), {})
                /\ ~genThrown
                /\ Len(tools) = Len(Entries)

-----------------------------------------------------------------------------
(* C5 *)

\* The definitions of the document that declare a composition and neither a
\* type nor properties.
UntypedCompositions(doc) ==
    { n \in { doc.schemas[i].schema : i \in DOMAIN doc.schemas } :
        /\ ~HasRef(n) /\ n.type = "" /\ n.properties = <<>>
        /\ (n.oneOf # <<>> \/ n.anyOf # <<>> \/ n.allOf # <<>>) }

\* branches resolved one by one, in order
BranchesResolved(doc, raw, res) ==
    /\ Len(res) = Len(raw)
    /\ \A i \in DOMAIN raw : res[i] = resolveSchema(doc, raw[i], {}).val

\* C5: a schema node that declares oneOf, anyOf or allOf and no explicit type
\* (and no properties) resolves to type "object", with an array of the same
\* name holding one resolved schema per branch in branch order and a
\* description containing "one of" / "any of" / "all of".
C5_CompositionDefaultsToObject ==
    Generated =>
        \A n \in UntypedCompositions(schema) :
            LET r == resolveSchema(schema, n, {})
            IN  ~r.thrown =>
                  /\ r.val.type = "object"
                  /\ n.oneOf # <<>> =>
                        /\ r.val.oneOf # <<>>
                        /\ BranchesResolved(schema, n.oneOf[1], r.val.oneOf[1])
                        /\ Includes(r.val.description, "one of")
                  /\ n.anyOf # <<>> =>
                        /\ r.val.anyOf # <<>>
                        /\ BranchesResolved(schema, n.anyOf[1], r.val.anyOf[1])
                        /\ Includes(r.val.description, "any of")
                  /\ n.allOf # <<>> =>
                        /\ r.val.allOf # <<>>
                        /\ BranchesResolved(schema, n.allOf[1], r.val.allOf[1])
                        /\ Includes(r.val.description, "all of")

-----------------------------------------------------------------------------
(* C3 *)

\* A property schema written inline with format "binary" that is not an array.
InlineBinaryScalar(p) == ~HasRef(p) /\ p.format = "binary" /\ p.type # "array"

\* A property schema written inline as an array whose items declare format "binary".
InlineBinaryArray(p) ==
    /\ ~HasRef(p) /\ p.type = "array"
    /\ p.items # <<>> /\ ~HasRef(p.items[1]) /\ p.items[1].format = "binary"

RECURSIVE PropertyPairs(_, _, _, _)
RECURSIVE PairsOfSeq(_, _, _)

\* Pairs the members of two sequences of schemas, raw with resolved.
PairsOfSeq(doc, raws, ress) ==
    IF Len(raws) # Len(ress) THEN {}
    ELSE UNION { PropertyPairs(doc, raws[i], ress[i], {}) : i \in DOMAIN raws }

\* Walks a raw schema and the schema resolved from it side by side and
\* returns, for every object property met, the raw property schema with the
\* tool-facing schema of that property.  A reference of the raw side is
\* followed to its definition (seen: the references followed since the last
\* step down, a chain of references that closes on itself is left alone);
\* the walk goes no deeper than the resolved side.
PropertyPairs(doc, raw, res, seen) ==
    IF HasRef(raw)
    THEN IF NamesDefinition(doc, raw.ref) /\ raw.ref \notin seen
            /\ res.description # CircularPlaceholder(raw.ref).description
         THEN PropertyPairs(doc, resolveReference(doc, raw.ref)[1], res, seen \cup {raw.ref})
         ELSE {}
    ELSE
      (IF raw.properties # <<>> /\ res.properties # <<>>
          /\ Len(raw.properties[1]) = Len(res.properties[1])
       THEN UNION { LET p == raw.properties[1][i].schema
                        q == res.properties[1][i].schema
                    IN  {[raw |-> p, res |-> q]} \cup PropertyPairs(doc, p, q, {})
                  : i \in DOMAIN raw.properties[1] }
       ELSE {})
      \cup (IF raw.items # <<>> /\ res.items # <<>>
            THEN PropertyPairs(doc, raw.items[1], res.items[1], {}) ELSE {})
      \cup (IF raw.additionalProperties # <<>> /\ res.additionalProperties # <<>>
               /\ ~raw.additionalProperties[1].isBool /\ ~res.additionalProperties[1].isBool
            THEN PropertyPairs(doc, raw.additionalProperties[1].s[1],
                               res.additionalProperties[1].s[1], {})
            ELSE {})
      \cup (IF raw.oneOf # <<>> /\ res.oneOf # <<>>
            THEN PairsOfSeq(doc, raw.oneOf[1], res.oneOf[1]) ELSE {})
      \cup (IF raw.anyOf # <<>> /\ res.anyOf # <<>>
            THEN PairsOfSeq(doc, raw.anyOf[1], res.anyOf[1]) ELSE {})
      \cup (IF raw.allOf # <<>> /\ res.allOf # <<>>
            THEN PairsOfSeq(doc, raw.allOf[1], res.allOf[1]) ELSE {})

\* The raw schema of each property of each generated tool, with the
\* tool-facing schema generateTools produced for it.
ToolPropertyPairs ==
    UNION { LET e == Entries[i]
                ps == e.pathParameters \o e.operation.parameters
                shown == tools[i].inputSchema.properties
            IN  UNION { IF ps[j].schema # <<>> /\ PropHas(shown, ps[j].name)
                        THEN PropertyPairs(schema, ps[j].schema[1], PropGet(shown, ps[j].name), {})
                        ELSE {}
                      : j \in DOMAIN ps }
                \cup (IF e.operation.requestBody # <<>> /\ PropHas(shown, "body")
                      THEN PropertyPairs(schema, RawBodySchema(e), PropGet(shown, "body"), {})
                      ELSE {})
          : i \in DOMAIN tools }

\* A description that tells the caller to pass a file path.
MentionsFilePath(description) == Includes(description, "file path")

\* C3: an object property whose own schema has format "binary" (not an array)
\* is shown by generateTools as a string, an object property that is an array
\* whose items declare format "binary" is shown as an array of strings; in
\* both cases no "binary" format is left and the description contains
\* "file path".
C3_BinaryFieldsBecomeFilePaths ==
    GenReturned =>
        \A pr \in ToolPropertyPairs :
            /\ InlineBinaryArray(pr.raw) =>
                  /\ pr.res.type = "array"
                  /\ pr.res.format # "binary"
                  /\ pr.res.items # <<>>
                  /\ pr.res.items[1].type = "string"
                  /\ pr.res.items[1].format # "binary"
                  /\ MentionsFilePath(pr.res.description)
            /\ InlineBinaryScalar(pr.raw) =>
                  /\ pr.res.type = "string"
                  /\ pr.res.format # "binary"
                  /\ MentionsFilePath(pr.res.description)

\* Reached: a tool shows both a scalar binary property and an array of
\* binary items, each in its file-path form.
C3_Witness ==
    /\ GenReturned
    /\ \E pr \in ToolPropertyPairs :
          InlineBinaryScalar(pr.raw) /\ pr.res.type = "string"
          /\ MentionsFilePath(pr.res.description)
    /\ \E pr \in ToolPropertyPairs :
          InlineBinaryArray(pr.raw) /\ pr.res.type = "array"
          /\ pr.res.items[1].type = "string"

-----------------------------------------------------------------------------
(* C14 *)

\* The schema nodes of the document: the definitions and the schemas the
\* operations start from.
DocumentSchemas(doc) ==
    OperationSchemas(doc) \cup { doc.schemas[i].schema : i \in DOMAIN doc.schemas }

\* C14: whatever resolveSchema returns for a schema of the document holds no
\* "$ref" at any depth (properties, items, additionalProperties, branches),
\* and so does every property of every generated tool.
C14_ResolvedSchemasHoldNoReference ==
    Generated =>
        /\ \A n \in DocumentSchemas(schema) :
              LET r == resolveSchema(schema, n, {})
              IN  ~r.thrown => RefsOf(r.val) = {}
        /\ \A i \in DOMAIN tools :
              \A j \in DOMAIN tools[i].inputSchema.properties :
                  RefsOf(tools[i].inputSchema.properties[j].schema) = {}

\* Reached: the body of the first tool is a reference to A, A and B refer to
\* each other in a property, and the tool shows A, B inside it, and the
\* circular placeholder inside B.
C14_Witness ==
    /\ GenReturned
    /\ Entries[1].operation.requestBody # <<>>
    /\ RawBodySchema(Entries[1]) = RefA
    /\ PropGet(schema.schemas, "A") = ObjOf(RefB)
    /\ PropGet(schema.schemas, "B") = ObjOf(RefA)
    /\ LET body == PropGet(tools[1].inputSchema.properties, "body")
           inB == PropGet(body.properties[1], "file")
       IN  /\ RefsOf(body) = {}
           /\ inB.type = "object"
           /\ PropGet(inB.properties[1], "file") = CircularPlaceholder(RefTo("A"))

-----------------------------------------------------------------------------
(* C15 *)

\* C15: no two tools of the list generateTools returns have the same name,
\* and the catalog entry that the client keeps under the name of a tool has
\* the path and the method of the operation the tool was built from.
C15_OperationIdsUnique ==
    GenReturned =>
        /\ \A i, j \in DOMAIN tools : tools[i].name = tools[j].name => i = j
        /\ \A i \in DOMAIN tools :
              LET info == MapGet(parseOperations(schema, <<>>), tools[i].name)
              IN  /\ info.path = Entries[i].pathKey
                  /\ info.method = UpperMethod(Entries[i].method)

-----------------------------------------------------------------------------
(* Reading the state of the client scenario. *)

\* executeOperation has settled and the operation was in the catalog.
Invoked == pc = "done" /\ MapHas(operations, call.operationId)

\* The catalog entry of the operation called.
Called == MapGet(operations, call.operationId)

\* Whether sub occurs in text as a run of consecutive fragments.
Contains(text, sub) ==
    \E i \in 0..(Len(text) - Len(sub)) : SubSeq(text, i + 1, i + Len(sub)) = sub

IsMissingRequiredParameters(o) ==
    o.kind = "threw" /\ o.message # <<>> /\ o.message[1] = "Missing required parameters: "

IsInvalidParameterType(o) ==
    /\ o.kind = "threw"
    /\ Len(o.message) >= 3
    /\ o.message[1] = "Parameter "
    /\ o.message[3] \in {" must be a valid number, got: ", " must be a boolean, got: ",
                         " must be an array, got: "}

\* The call failed with InvalidParameterType on the parameter name.
Rejected(name) == IsInvalidParameterType(outcome) /\ outcome.message[2] = name

\* The request sent holds val as the value of the query parameter name.
RoutedQuery(name, val) ==
    /\ MapHas(requests[1].params, name)
    /\ MapGet(requests[1].params, name) = val

\* The request sent holds the text in place of the path template {name}.
RoutedPath(name, text) ==
    requests[1].url = ReplaceFirst(baseUrl \o Called.path, name, text)

\* The declared parameters of the operation called that have the schema type
\* type and an argument that is neither undefined nor null.
Supplied(types) ==
    { p \in SeqToSet(Called.parameters) :
        /\ p.schema # <<>>
        /\ p.schema[1].type \in types
        /\ ~IsNullish(Lookup(call.args, p.name)) }

-----------------------------------------------------------------------------
(* Missing required parameters *)

\* The 'name (location)' of the required parameters that args omits, in
\* declaration order.
OmittedRequired(params, args) ==
    LET omitted == SelectSeq(params, LAMBDA p : p.required /\ IsNullish(Lookup(args, p.name)))
    IN  [i \in DOMAIN omitted |-> <<omitted[i].name, " (", omitted[i].in, ")">>]

\* C2: a call that omits (undefined or null) at least one required declared
\* parameter fails with MissingRequiredParameters, whatever the other
\* arguments are; the message lists every omitted required parameter as
\* 'name (location)' in declaration order, and no request is sent.
C2_MissingParametersReportedTogether ==
    Invoked =>
        LET missing == OmittedRequired(Called.parameters, call.args)
        IN  missing # <<>> =>
               /\ outcome.kind = "threw"
               /\ outcome.message = <<"Missing required parameters: ">>
                                    \o JoinWith(missing, <<", ">>)
               /\ requests = <<>>

-----------------------------------------------------------------------------
(* The failed HTTP exchange *)

\* The message starts with a status code.
HasStatusCode(message) ==
    Len(message) >= 2 /\ message[1] = "HTTP " /\ IsDigit(message[2])

\* C6: when the exchange fails (the remote answers with a non-success status,
\* or the transport fails) the call fails with one error whose message holds
\* the status code, the status text and the response body when there are
\* any, and the request URL and method; the message holds a status code
\* exactly when the remote service answered.
C6_RequestFailedCarriesContext ==
    (Invoked /\ requests # <<>> /\ ~Resolves(remote)) =>
        /\ outcome.kind = "threw"
        /\ Len(requests) = 1
        /\ HasStatusCode(outcome.message) <=> remote.kind = "response"
        /\ remote.kind = "response" =>
              /\ Contains(outcome.message, NatToChars(remote.status))
              /\ Contains(outcome.message, remote.statusText)
              /\ Truthy(remote.data) => Contains(outcome.message, JsonStringify(remote.data))
        /\ Contains(outcome.message, requests[1].url)
        /\ Includes(outcome.message, requests[1].method)

-----------------------------------------------------------------------------
(* Multipart assembly *)

\* The properties that the multipart body schema of the operation called
\* declares, the schema being inline or one reference away.
FormProperties ==
    LET content == ContentAt(Called.requestBody[1].content[1], "multipart/form-data")
        raw == content[1].schema[1]
        node == IF HasRef(raw) THEN resolveReference(schema, raw.ref) ELSE <<raw>>
    IN  IF node # <<>> /\ ~HasRef(node[1]) /\ node[1].properties # <<>>
        THEN node[1].properties[1] ELSE <<>>

\* A field that the body schema declares as binary content, or as an array
\* of binary items.
DeclaredFile(key) ==
    /\ PropHas(FormProperties, key)
    /\ LET n == PropGet(FormProperties, key)
       IN  \/ n.format = "binary"
           \/ n.type = "array" /\ n.items # <<>> /\ n.items[1].format = "binary"

\* A field that the body schema declares as plain text, or does not declare.
DeclaredPlain(key) ==
    \/ ~PropHas(FormProperties, key)
    \/ PropGet(FormProperties, key) = StrSchema

\* What is at a path of the file system: "nothing", "file" or "directory".
At(path) ==
    IF \E i \in DOMAIN fs : fs[i].path = path
    THEN fs[CHOOSE i \in DOMAIN fs : fs[i].path = path].kind
    ELSE "nothing"

\* The entry is a file field given as a string path.
PathEntry(e) == DeclaredFile(e.key) /\ e.value.t = "string"

\* The entry cannot stop the assembly: a plain field, or the path of a file.
Passes(e) == DeclaredPlain(e.key) \/ (PathEntry(e) /\ At(e.value.v) = "file")

\* An upload call whose body is an object.
Uploading ==
    /\ Invoked
    /\ Called.requestBody # <<>>
    /\ ContentKeys(Called.requestBody[1].content[1]) = <<"multipart/form-data">>
    /\ Lookup(call.args, "body").t = "object"

\* C7: for a file field of a multipart body whose value is a string path (the
\* fields before it having been assembled): nothing at the path fails with
\* FileNotFound naming the path, something that is not a regular file fails
\* with NotAFile naming the path, in both cases without a request; only
\* otherwise the part is attached under the field name with the base name of
\* the path as filename.
C7_FilePathsAreValidated ==
    Uploading =>
        LET entries == Lookup(call.args, "body").v
        IN  \A i \in DOMAIN entries :
               (PathEntry(entries[i]) /\ \A j \in 1..(i - 1) : Passes(entries[j])) =>
                  LET path == entries[i].value.v
                  IN  CASE At(path) = "nothing" ->
                             /\ outcome.kind = "threw"
                             /\ outcome.message = <<"File not found: ">> \o path
                             /\ requests = <<>>
                        [] At(path) = "directory" ->
                             /\ outcome.kind = "threw"
                             /\ outcome.message = <<"Path is not a file: ">> \o path
                             /\ requests = <<>>
                        [] OTHER ->
                             /\ outcome.message # <<"File not found: ">> \o path
                             /\ outcome.message # <<"Path is not a file: ">> \o path
                             /\ requests # <<>> =>
                                   \E k \in DOMAIN requests[1].data.v :
                                       LET part == requests[1].data.v[k]
                                       IN  /\ part.name = entries[i].key
                                           /\ part.isFile
                                           /\ part.filename = basename(path)

-----------------------------------------------------------------------------
(* Parameter coercion *)

\* C8: for a parameter of schema type integer or number and a supplied value,
\* the call fails with InvalidParameterType exactly when the value does not
\* parse to a finite number (text that is no number, NaN, the infinities);
\* otherwise the parsed number is what the request carries.
C8_NumericParametersMustBeFinite ==
    Invoked =>
        \A p \in Supplied({"integer", "number"}) :
            LET num == ToNumber(Lookup(call.args, p.name))
            IN  IF num.v.cls = "finite"
                THEN /\ ~Rejected(p.name)
                     /\ requests # <<>> =>
                           CASE p.in = "query" -> RoutedQuery(p.name, num)
                             [] p.in = "path" -> RoutedPath(p.name, NumberToChars(num.v))
                             [] OTHER -> TRUE
                ELSE IsInvalidParameterType(outcome) /\ requests = <<>>

\* The text is word up to the case of its letters; word is in lower case.
SameLetters(chars, word) ==
    /\ Len(chars) = Len(word)
    /\ \A i \in DOMAIN chars :
          \/ chars[i] = word[i]
          \/ \E k \in DOMAIN LowerCase : LowerCase[k] = word[i] /\ UpperCase[k] = chars[i]

\* C9: for a parameter of schema type boolean, a boolean argument is routed
\* unchanged, the strings "true" and "false" in any letter case are routed as
\* the booleans true and false, and every other value fails with
\* InvalidParameterType.
C9_BooleanParametersCoerce ==
    Invoked =>
        \A p \in Supplied({"boolean"}) :
            LET value == Lookup(call.args, p.name)
                isTrue == value.t = "string" /\ SameLetters(value.v, <<"t", "r", "u", "e">>)
                isFalse == value.t = "string" /\ SameLetters(value.v, <<"f", "a", "l", "s", "e">>)
            IN  IF value.t = "boolean" \/ isTrue \/ isFalse
                THEN /\ ~Rejected(p.name)
                     /\ (requests # <<>> /\ p.in = "query") =>
                           RoutedQuery(p.name, IF value.t = "boolean" THEN value
                                               ELSE Bool(isTrue))
                ELSE IsInvalidParameterType(outcome) /\ requests = <<>>

\* Reached: a boolean parameter given as "TrUe" went out as true, and one
\* given as a boolean went out unchanged.
C9_Witness ==
    /\ Invoked
    /\ call.operationId = "testTypes"
    /\ Lookup(call.args, "boolParam") = String(<<"T", "r", "U", "e">>)
    /\ requests # <<>>
    /\ RoutedQuery("boolParam", Bool(TRUE))

\* C10: for a parameter of schema type array, a sequence argument is routed
\* as it is, a string that is the JSON text of an array is routed as that
\* array, and a string that is not valid JSON is routed as the list of its
\* comma-separated segments, each trimmed, in order.
C10_ArrayParametersCoerce ==
    Invoked =>
        \A p \in Supplied({"array"}) :
            LET value == Lookup(call.args, p.name)
                parsed == JsonParse(value.v)
                segments == SplitOn(value.v, ",", <<>>)
            IN  /\ value.t = "array" =>
                      /\ ~Rejected(p.name)
                      /\ requests # <<>> => RoutedQuery(p.name, value)
                /\ (value.t = "string" /\ parsed.ok /\ parsed.val.t = "array") =>
                      /\ ~Rejected(p.name)
                      /\ requests # <<>> => RoutedQuery(p.name, parsed.val)
                /\ (value.t = "string" /\ ~parsed.ok) =>
                      /\ ~Rejected(p.name)
                      /\ requests # <<>> =>
                            RoutedQuery(p.name,
                                Array([i \in DOMAIN segments |-> String(Trim(segments[i]))]))

\* Reached: " a , b c,, d " went out as ["a", "b c", "", "d"].
C10_Witness ==
    /\ Invoked
    /\ Lookup(call.args, "arrayParam") =
          String(<<" ", "a", " ", ",", " ", "b", " ", "c", ",", ",", " ", "d", " ">>)
    /\ requests # <<>>
    /\ RoutedQuery("arrayParam",
                   Array(<<String(<<"a">>), String(<<"b", " ", "c">>), String(<<>>),
                           String(<<"d">>)>>))

-----------------------------------------------------------------------------
(* Routing of the parameters *)

\* executeOperation returned a result.
Successful == Invoked /\ outcome.kind = "returned"

\* The declared parameters of the operation called with location loc and an
\* argument that is neither undefined nor null, in declaration order.
SuppliedIn(loc) ==
    SelectSeq(Called.parameters,
              LAMBDA p : p.in = loc /\ ~IsNullish(Lookup(call.args, p.name)))

\* The coerced value of the argument of parameter p.
Coerced(p) == processParameterValue(p, Lookup(call.args, p.name)).val

RECURSIVE SubstitutedPath(_, _)
\* The path template with the placeholder of each of the path parameters
\* params replaced by the URL-encoded string form of its coerced value.
SubstitutedPath(path, params) ==
    IF params = <<>> THEN path
    ELSE SubstitutedPath(
            ReplaceFirst(path, Head(params).name,
                         encodeURIComponent(ToStringChars(Coerced(Head(params))))),
            Tail(params))

\* The last parameter of params that has the name name.
LastNamed(params, name) ==
    params[CHOOSE i \in DOMAIN params :
              /\ params[i].name = name
              /\ \A j \in DOMAIN params : params[j].name = name => j <= i]

\* C11: in a successful call the request URL is the base URL followed by the
\* path template with the placeholder of every supplied path parameter replaced
\* by the URL-encoded string form of its coerced value; the query set holds
\* exactly the supplied query parameters, each under its name with its coerced
\* value; every supplied header parameter is in the headers as a string, and
\* no path or query parameter is.
C11_ParametersRoutedByLocation ==
    Successful =>
        /\ Len(requests) = 1
        /\ requests[1].url = baseUrl \o SubstitutedPath(Called.path, SuppliedIn("path"))
        /\ MapKeys(requests[1].params) = { p.name : p \in SeqToSet(SuppliedIn("query")) }
        /\ \A p \in SeqToSet(SuppliedIn("query")) :
              MapGet(requests[1].params, p.name)
                 = Coerced(LastNamed(SuppliedIn("query"), p.name))
        /\ \A p \in SeqToSet(SuppliedIn("header")) :
              /\ MapHas(requests[1].headers, p.name)
              /\ MapGet(requests[1].headers, p.name)
                    = ToStringChars(Coerced(LastNamed(SuppliedIn("header"), p.name)))
        /\ \A p \in SeqToSet(SuppliedIn("path")) \cup SeqToSet(SuppliedIn("query")) :
              (\A h \in SeqToSet(SuppliedIn("header")) : h.name # p.name)
                 => ~MapHas(requests[1].headers, p.name)

-----------------------------------------------------------------------------
(* Unknown operations *)

\* executeOperation has settled for an identifier that is no key of the catalog.
InvokedUnknown == pc = "done" /\ call.operationId \notin MapKeys(operations)

\* C12: a call of an identifier that is not a key of the catalog fails with
\* OperationNotFound naming the identifier, whatever the arguments are, and
\* sends no request.
C12_UnknownOperationNotFound ==
    InvokedUnknown =>
        /\ outcome.kind = "threw"
        /\ outcome.message = <<"Operation ", call.operationId, " not found">>
        /\ requests = <<>>

\* Reached: "get_users", one character from the synthesized key "get__users",
\* was called with arguments and failed with OperationNotFound.
C12_Witness ==
    /\ InvokedUnknown
    /\ "get__users" \in MapKeys(operations)
    /\ call.operationId = "get_users"
    /\ call.args # <<>>
    /\ outcome.message = <<"Operation ", "get_users", " not found">>

-----------------------------------------------------------------------------
(* Base URL resolution *)

\* initialize has run.
Initialized == pc # "created"

\* C13: after initialize the base URL is the configured one when one is
\* configured, otherwise the URL of the first declared server, and a request
\* of an operation without path arguments goes to that base URL followed by
\* the path; when there is neither, initialize fails with NoBaseUrl and the
\* catalog stays empty.
C13_BaseUrlResolution ==
    Initialized =>
        /\ options.baseUrl # <<>> => pc # "initFailed" /\ baseUrl = options.baseUrl
        /\ (options.baseUrl = <<>> /\ schema.servers # <<>>) =>
              pc # "initFailed" /\ baseUrl = schema.servers[1]
        /\ (options.baseUrl = <<>> /\ schema.servers = <<>>) =>
              /\ pc = "initFailed"
              /\ outcome.kind = "threw"
              /\ outcome.message =
                    <<"No server URL found in OpenAPI schema and no base URL provided">>
              /\ operations = <<>>
              /\ requests = <<>>
        /\ (Invoked /\ requests # <<>> /\ SuppliedIn("path") = <<>>) =>
              requests[1].url =
                 (IF options.baseUrl # <<>> THEN options.baseUrl ELSE schema.servers[1])
                 \o Called.path

\* Reached: with a configured base URL and a declared server, the request of
\* GET /users went to the configured base URL.
C13_Witness ==
    /\ Invoked
    /\ options.baseUrl = <<"http://localhost:8080">>
    /\ schema.servers # <<>>
    /\ schema.servers[1] # options.baseUrl
    /\ requests # <<>>
    /\ requests[1].url = <<"http://localhost:8080", "/", "users">>

-----------------------------------------------------------------------------
(* One request per call *)

\* The call ended with one of the errors raised before the request is made
\* that the claim lists: OperationNotFound, MissingRequiredParameters,
\* InvalidParameterType, FileNotFound, NotAFile, InvalidFilePathType.
FailedBeforeExecution(o) ==
    /\ o.kind = "threw"
    /\ \/ (Len(o.message) = 3 /\ o.message[1] = "Operation " /\ o.message[3] = " not found")
       \/ IsMissingRequiredParameters(o)
       \/ IsInvalidParameterType(o)
       \/ (o.message # <<>> /\ o.message[1] \in {"File not found: ", "Path is not a file: ",
                                                  "File path must be a string, got: "})

\* The call ended because its body could not be assembled: a multipart body
\* that is no object, or text that is not JSON for a JSON body.
BodyRejected(o) ==
    /\ o.kind = "threw"
    /\ o.message # <<>>
    /\ o.message[1] \in {"Request body must be an object for multipart/form-data",
                          "SyntaxError: "}

\* Parameters validated, body assembled: the call is past both.
ReadyToSend(f) ==
    /\ f.pc \in {"awaiting", "done"}
    /\ MapHas(operations, f.operationId)
    /\ LET params == MapGet(operations, f.operationId).parameters
       IN  /\ OmittedRequired(params, f.args) = <<>>
           /\ \A k \in DOMAIN params :
                  ~IsNullish(Lookup(f.args, params[k].name)) =>
                      ~processParameterValue(params[k], Lookup(f.args, params[k].name)).thrown
    /\ f.entries = <<>> /\ ~f.inArray

\* What holds of the requests of one call, before is the set of results that
\* come without a request.
OneRequest(f, failedBefore) ==
    /\ Len(f.sent) <= 1
    /\ f.sent # <<>> => ReadyToSend(f)
    /\ f.pc = "done" => (f.sent = <<>> <=> failedBefore)

-----------------------------------------------------------------------------
(* Concurrent calls *)

\* C17: whatever the interleaving, a call that has ended made the requests
\* and got the result that the same call makes and gets when it runs alone
\* from start to end, and the catalog, the base URL and the configuration of
\* the client are what initialize left.
C17_ConcurrentCallsIndependent ==
    /\ \A c \in DOMAIN frames :
          frames[c].pc = "done" =>
              LET alone == executeOperation(schema, operations, baseUrl, fs, frames[c].answer,
                                            frames[c].operationId, frames[c].args)
              IN  /\ frames[c].sent = alone.sent
                  /\ frames[c].outcome = alone.outcome
    /\ (frames # <<>> /\ pc = "ready") =>
          /\ operations = initialize(WithoutBaseUrl, schema, <<>>, <<>>).operations
          /\ baseUrl = initialize(WithoutBaseUrl, schema, <<>>, <<>>).baseUrl
          /\ options = WithoutBaseUrl

\* Reached: two uploads ran interleaved (the second made its request while
\* the first was still assembling, and the first made its own afterwards),
\* and each sent the parts of its own body.
C17_Witness ==
    /\ Len(frames) = 2
    /\ frames[1].pc = "done" /\ frames[2].pc = "done"
    /\ frames[1].operationId = "uploadFile" /\ frames[2].operationId = "uploadFile"
    /\ Len(frames[1].parts) = 4 /\ Len(frames[2].parts) = 1
    /\ Len(requests) = 2
    /\ requests[1] = frames[2].sent[1]
    /\ requests[2] = frames[1].sent[1]
    /\ Len(frames[1].sent[1].data.v) = 4
    /\ Len(frames[2].sent[1].data.v) = 1
    /\ frames[2].sent[1].data.v[1].filename = <<"n", "o", "t", "e", "s">>

-----------------------------------------------------------------------------
(* Cookie parameters *)

\* The tool that generateTools builds under the name name.
ToolNamed(name) ==
    LET built == generateTools(schema).tools
    IN  built[CHOOSE i \in DOMAIN built : built[i].name = name]

\* The names of the cookie parameters of the operation called that no
\* parameter of another location shares.
CookieNames ==
    { p.name : p \in { q \in SeqToSet(Called.parameters) : q.in = "cookie" } }
    \ { p.name : p \in { q \in SeqToSet(Called.parameters) : q.in # "cookie" } }

\* C18: the cookie parameters of an operation are neither properties nor
\* required entries of its tool; a call that supplies every parameter the
\* tool marks required does not fail with MissingRequiredParameters; and the
\* request holds no cookie parameter, in the query, the headers or (under a
\* base URL without placeholder) the URL.
C18_CookieParametersDropped ==
    Invoked =>
        LET inputSchema == ToolNamed(call.operationId).inputSchema
            required == IF inputSchema.required = <<>> THEN {}
                        ELSE SeqToSet(inputSchema.required[1])
        IN  /\ \A name \in CookieNames :
                  ~PropHas(inputSchema.properties, name) /\ name \notin required
            /\ (\A name \in required : ~IsNullish(Lookup(call.args, name)))
                  => ~IsMissingRequiredParameters(outcome)
            /\ requests # <<>> =>
                  /\ \A name \in CookieNames :
                        /\ ~MapHas(requests[1].params, name)
                        /\ ~MapHas(requests[1].headers, name)
                  /\ ~MapHas(requests[1].headers, "Cookie")
                  /\ ~Includes(baseUrl, "{") =>
                        requests[1].url = baseUrl \o SubstitutedPath(Called.path, SuppliedIn("path"))

-----------------------------------------------------------------------------
(* Properties that are not file fields *)

RECURSIVE PropertyTriples(_, _, _, _)
RECURSIVE TriplesOfSeq(_, _, _, _)

\* The members of two sequences of schemas, raw with resolved, under stack.
TriplesOfSeq(doc, raws, ress, stack) ==
    IF Len(raws) # Len(ress) THEN {}
    ELSE UNION { PropertyTriples(doc, raws[i], ress[i], stack) : i \in DOMAIN raws }

\* Walks a raw schema and the schema resolved from it side by side, as
\* PropertyPairs does, and carries the references followed from the top of
\* the resolution down to each object property: the resolutionStack under
\* which resolveSchema was called on that property.
PropertyTriples(doc, raw, res, stack) ==
    IF HasRef(raw)
    THEN IF raw.ref \notin stack /\ resolveReference(doc, raw.ref) # <<>>
         THEN PropertyTriples(doc, resolveReference(doc, raw.ref)[1], res,
                              stack \cup {raw.ref})
         ELSE {}
    ELSE
      (IF raw.properties # <<>> /\ res.properties # <<>>
          /\ Len(raw.properties[1]) = Len(res.properties[1])
       THEN UNION { LET p == raw.properties[1][i].schema
                        q == res.properties[1][i].schema
                    IN  {[raw |-> p, res |-> q, stack |-> stack,
                          siblings |-> { raw.properties[1][j].schema :
                                           j \in DOMAIN raw.properties[1] \ {i} }]}
                        \cup PropertyTriples(doc, p, q, stack)
                  : i \in DOMAIN raw.properties[1] }
       ELSE {})
      \cup (IF raw.items # <<>> /\ res.items # <<>>
            THEN PropertyTriples(doc, raw.items[1], res.items[1], stack) ELSE {})
      \cup (IF raw.additionalProperties # <<>> /\ res.additionalProperties # <<>>
               /\ ~raw.additionalProperties[1].isBool /\ ~res.additionalProperties[1].isBool
            THEN PropertyTriples(doc, raw.additionalProperties[1].s[1],
                                 res.additionalProperties[1].s[1], stack)
            ELSE {})
      \cup (IF raw.oneOf # <<>> /\ res.oneOf # <<>>
            THEN TriplesOfSeq(doc, raw.oneOf[1], res.oneOf[1], stack) ELSE {})
      \cup (IF raw.anyOf # <<>> /\ res.anyOf # <<>>
            THEN TriplesOfSeq(doc, raw.anyOf[1], res.anyOf[1], stack) ELSE {})
      \cup (IF raw.allOf # <<>> /\ res.allOf # <<>>
            THEN TriplesOfSeq(doc, raw.allOf[1], res.allOf[1], stack) ELSE {})

\* Each object property below the parameters and the body of each generated
\* tool: its raw schema, the schema the tool shows for it, the references in
\* flight when it was resolved and the raw schemas of its siblings.
ToolPropertyTriples ==
    UNION { LET e == Entries[i]
                ps == e.pathParameters \o e.operation.parameters
                shown == tools[i].inputSchema.properties
            IN  UNION { IF ps[j].schema # <<>> /\ PropHas(shown, ps[j].name)
                        THEN PropertyTriples(schema, ps[j].schema[1], PropGet(shown, ps[j].name), {})
                        ELSE {}
                      : j \in DOMAIN ps }
                \cup (IF e.operation.requestBody # <<>> /\ PropHas(shown, "body")
                      THEN PropertyTriples(schema, RawBodySchema(e), PropGet(shown, "body"), {})
                      ELSE {})
          : i \in DOMAIN tools }

\* A property schema written inline that holds a type and no enum, no
\* format and no nested schema: resolving it leaves nothing to add.
PlainLeaf(p) ==
    /\ ~HasRef(p) /\ p.type # "" /\ p.format = "" /\ p.enum = <<>>
    /\ p.properties = <<>> /\ p.items = <<>> /\ p.additionalProperties = <<>>
    /\ p.oneOf = <<>> /\ p.anyOf = <<>> /\ p.allOf = <<>>

\* C19: an object property that isFileUploadSchema does not detect is shown
\* by the tool exactly as resolveSchema resolves it (a plain inline leaf:
\* exactly as written), whether or not a sibling is a file field.
C19_NonFileFieldsUntouched ==
    GenReturned =>
        \A tr \in ToolPropertyTriples :
            isFileUploadSchema(schema, tr.raw) = "false" =>
                /\ tr.res = resolveSchema(schema, tr.raw, tr.stack).val
                /\ PlainLeaf(tr.raw) => tr.res = tr.raw

\* Reached: a tool shows a plain field unchanged next to a file field in its
\* file-path form, and a field that only resolves to an array of binary
\* items, which is no file field, as it resolves.
C19_Witness ==
    /\ GenReturned
    /\ \E tr \in ToolPropertyTriples :
          /\ isFileUploadSchema(schema, tr.raw) = "false"
          /\ tr.res = StrSchema
          /\ \E s \in tr.siblings : isFileUploadSchema(schema, s) = "true"
    /\ \E tr \in ToolPropertyTriples :
          /\ isFileUploadSchema(schema, tr.raw) = "false"
          /\ tr.res.type = "array" /\ tr.res.items # <<>>
          /\ tr.res.items[1].format = "binary"

-----------------------------------------------------------------------------
(* ToolGenerator.resolveSchema, statement by statement on resolutionStack *)

\* The run of the resolutions so far: set is this.resolutionStack as the
\* statements leave it, path the references whose resolveSchema calls are
\* on the call stack (outermost first), log what was seen at each step, and
\* thrown tells that an exception is unwinding the calls.
NoResolution == [set |-> {}, path |-> <<>>, log |-> <<>>, thrown |-> FALSE]

\* Records the set and the path at a step of the run.
Note(run, at, ref) ==
    [run EXCEPT !.log = Append(@, [at |-> at, ref |-> ref, set |-> run.set, path |-> run.path])]

\* this.resolutionStack.add(ref), then the call on the target begins.
AddRef(run, ref) ==
    Note([run EXCEPT !.set = @ \cup {ref}, !.path = Append(@, ref)], "added", ref)

\* The call on the target is over: this.resolutionStack.delete(ref) when it
\* returned; an exception passes the delete by.
DeleteRef(run, ref) ==
    IF run.thrown
    THEN [run EXCEPT !.path = SubSeq(@, 1, Len(@) - 1)]
    ELSE Note([run EXCEPT !.set = @ \ {ref}, !.path = SubSeq(@, 1, Len(@) - 1)],
              "deleted", ref)

\* this.isFileUploadSchema(prop) in the properties loop.
AfterFileCheck(doc, prop, run) ==
    IF run.thrown THEN run
    ELSE IF isFileUploadSchema(doc, prop) = "RangeError" THEN [run EXCEPT !.thrown = TRUE]
    ELSE run

RECURSIVE WalkSchema(_, _, _)
RECURSIVE WalkProperties(_, _, _)
RECURSIVE WalkBranches(_, _, _)

\* for (const [key, prop] of Object.entries(schema.properties))
WalkProperties(doc, props, run) ==
    IF run.thrown \/ props = <<>> THEN run
    ELSE WalkProperties(doc, Tail(props),
             AfterFileCheck(doc, Head(props).schema,
                            WalkSchema(doc, Head(props).schema, run)))

\* schema.oneOf.map(s => this.resolveSchema(s)), and the like
WalkBranches(doc, branches, run) ==
    IF run.thrown \/ branches = <<>> THEN run
    ELSE WalkBranches(doc, Tail(branches), WalkSchema(doc, Head(branches), run))

WalkAdditional(doc, s, run) ==
    IF run.thrown \/ s.additionalProperties = <<>> THEN run
    ELSE IF s.additionalProperties[1].isBool THEN run
    ELSE WalkSchema(doc, s.additionalProperties[1].s[1], run)

WalkItems(doc, s, run) ==
    IF run.thrown \/ BasicType(s) # "array" \/ s.items = <<>> THEN run
    ELSE WalkSchema(doc, s.items[1], run)

\* The branches of oneOf, anyOf or allOf, <<>> when the schema has none.
BranchesOf(branches) == IF branches = <<>> THEN <<>> ELSE branches[1]

\* resolveSchema(s) as it acts on resolutionStack.
WalkSchema(doc, s, run) ==
    IF run.thrown THEN run
    ELSE IF HasRef(s)
    THEN IF s.ref \in run.set THEN Note(run, "circular", s.ref)
         ELSE IF resolveReference(doc, s.ref) # <<>>
         THEN DeleteRef(WalkSchema(doc, resolveReference(doc, s.ref)[1], AddRef(run, s.ref)),
                        s.ref)
         ELSE Note(run, "unresolved", s.ref)
    ELSE WalkBranches(doc, BranchesOf(s.allOf),
           WalkBranches(doc, BranchesOf(s.anyOf),
             WalkBranches(doc, BranchesOf(s.oneOf),
               WalkItems(doc, s,
                 WalkAdditional(doc, s,
                   WalkProperties(doc, BranchesOf(s.properties), run))))))

\* The schemas createToolFromOperation hands to resolveSchema for one
\* operation, in order: the parameters that are no cookie and have a schema,
\* then the schema of the primary content type of the body.
TopLevelSchemasOf(e) ==
    LET ps == SelectSeq(e.pathParameters \o e.operation.parameters,
                        LAMBDA p : p.in # "cookie" /\ p.schema # <<>>)
    IN  [j \in DOMAIN ps |-> ps[j].schema[1]]
        \o PrimaryContent(e.operation.requestBody).schema

\* The top-level resolveSchema calls of generateTools, in order.
TopLevelSchemas(doc) ==
    Flatten([i \in DOMAIN PathsLoop(doc.paths) |-> TopLevelSchemasOf(PathsLoop(doc.paths)[i])])

RECURSIVE WalkTopLevel(_, _, _)
\* One top-level call after the other; an exception ends generateTools.
WalkTopLevel(doc, schemas, run) ==
    IF run.thrown \/ schemas = <<>> THEN run
    ELSE WalkTopLevel(doc, Tail(schemas),
             Note(WalkSchema(doc, Head(schemas), Note(run, "before", <<>>)), "after", <<>>))

\* generateTools(doc) as it acts on resolutionStack, which it clears first.
ResolutionRun(doc) == WalkTopLevel(doc, TopLevelSchemas(doc), NoResolution)

-----------------------------------------------------------------------------
(* C20 *)

\* C20: resolutionStack is empty before and after each top-level
\* resolveSchema call of generateTools and when generateTools is over; at
\* each step in between it holds exactly the references on the current
\* path, each once; and only a reference on the current path is reported as
\* circular.
C20_InFlightSetFollowsPath ==
    pc = "generated" =>
        /\ resolutionStack = {}
        /\ \A i \in DOMAIN ResolutionRun(schema).log :
              LET n == ResolutionRun(schema).log[i]
              IN  /\ n.at \in {"before", "after"} => n.set = {}
                  /\ n.set = SeqToSet(n.path)
                  /\ Cardinality(n.set) = Len(n.path)
                  /\ n.at = "circular" => \E k \in DOMAIN n.path : n.path[k] = n.ref

-----------------------------------------------------------------------------
(* C21 *)

RECURSIVE Dereferenced(_, _, _)
\* The schema node a property schema stands for: the node itself, or the
\* definition at the end of its chain of references (<<>> when the chain
\* breaks or closes on itself).
Dereferenced(doc, s, seen) ==
    IF ~HasRef(s) THEN <<s>>
    ELSE IF s.ref \in seen \/ resolveReference(doc, s.ref) = <<>> THEN <<>>
    ELSE Dereferenced(doc, resolveReference(doc, s.ref)[1], seen \cup {s.ref})

\* A property that isFileUploadSchema detects and whose node is an array.
DetectedArrayFile(doc, p) ==
    /\ isFileUploadSchema(doc, p) = "true"
    /\ Dereferenced(doc, p, {}) # <<>>
    /\ Dereferenced(doc, p, {})[1].type = "array"

\* C21: every object property detected as a file-upload field whose node is
\* an array (binary items, or format "binary" on the array itself) is shown
\* by the tool as an array whose items are strings.
C21_ArrayFileFieldsBecomeArrays ==
    GenReturned =>
        \A pr \in ToolPropertyPairs :
            DetectedArrayFile(schema, pr.raw) =>
                /\ pr.res.type = "array"
                /\ pr.res.items # <<>>
                /\ pr.res.items[1].type = "string"

-----------------------------------------------------------------------------
(* C22 *)

\* The property schema written inline: the definition in place of a
\* reference to it, for the property and for the items of its array.
InlineForm(doc, p) ==
    IF Dereferenced(doc, p, {}) = <<>> THEN p
    ELSE LET n == Dereferenced(doc, p, {})[1]
         IN  IF n.items # <<>> /\ HasRef(n.items[1])
                /\ Dereferenced(doc, n.items[1], {}) # <<>>
             THEN [n EXCEPT !.items = Dereferenced(doc, n.items[1], {})]
             ELSE n

\* A tool-facing schema in its file-path form.
FilePathForm(res) ==
    /\ res.format # "binary"
    /\ res.items # <<>> => res.items[1].format # "binary"
    /\ MentionsFilePath(res.description)

\* The placeholder of a reference met again on its own resolution path: such
\* a reference has no inline form.
ShownCircular(res) ==
    res.description # <<>> /\ res.description[1] = "Circular reference detected: "

\* C22: a property is detected as a file field exactly when the same schema
\* written inline (no reference for the property, none for the items of its
\* array) is detected, and is then shown in the file-path form.  References
\* that close a cycle are left out.
C22_DetectionSeesThroughReferences ==
    GenReturned =>
        \A pr \in ToolPropertyPairs :
            ~ShownCircular(pr.res) =>
                /\ isFileUploadSchema(schema, pr.raw)
                      = isFileUploadSchema(schema, InlineForm(schema, pr.raw))
                /\ isFileUploadSchema(schema, InlineForm(schema, pr.raw)) = "true"
                      => FilePathForm(pr.res)

-----------------------------------------------------------------------------
(* C23 *)

\* The request bodies with content of the loaded document, by operation.
WithContent ==
    { i \in DOMAIN Entries :
        /\ Entries[i].operation.requestBody # <<>>
        /\ Entries[i].operation.requestBody[1].content # <<>>
        /\ Entries[i].operation.requestBody[1].content[1] # <<>> }

\* The content types the i-th operation declares.
Declared(i) == SeqToSet(ContentKeys(Entries[i].operation.requestBody[1].content[1]))

\* The first member of order that is in types.
FirstIn(order, types) ==
    order[CHOOSE k \in DOMAIN order :
            order[k] \in types /\ \A j \in 1..(k - 1) : order[j] \notin types]

\* The primary content type of a set of declared types, as the catalog is
\* to choose it: by the fixed order, else the smallest.
ExpectedPrimary(types) ==
    IF \E k \in DOMAIN priorities : priorities[k] \in types
    THEN FirstIn(priorities, types)
    ELSE FirstIn(LocaleOrder, types)

\* C23: the body property of each tool is the resolved schema declared under
\* the first declared type of the fixed order, or under the smallest declared
\* type when none is in the fixed order; the order of listing plays no part.
C23_PrimaryContentTypeByPriority ==
    GenReturned =>
        \A i \in WithContent :
            LET media == ContentAt(Entries[i].operation.requestBody[1].content[1],
                                   ExpectedPrimary(Declared(i)))[1]
                shown == tools[i].inputSchema.properties
            IN  media.schema # <<>> =>
                  /\ PropHas(shown, "body")
                  /\ [PropGet(shown, "body") EXCEPT !.description = <<>>]
                        = [resolveSchema(schema, media.schema[1], {}).val
                              EXCEPT !.description = <<>>]

\* Reached: text/plain is listed first and application/xml last, and the
\* body is the schema under application/xml; image/png is listed after
\* text/csv and the body is the schema under image/png.
C23_Witness ==
    \/ /\ GenReturned /\ WithContent = {1}
       /\ ContentKeys(Entries[1].operation.requestBody[1].content[1])
             = <<"text/plain", "image/png", "application/xml">>
       /\ PropGet(tools[1].inputSchema.properties, "body").minLength
             = SchemaUnder("application/xml").minLength
    \/ /\ GenReturned /\ WithContent = {1}
       /\ ContentKeys(Entries[1].operation.requestBody[1].content[1])
             = <<"text/csv", "image/png">>
       /\ PropGet(tools[1].inputSchema.properties, "body").minLength
             = SchemaUnder("image/png").minLength

-----------------------------------------------------------------------------
(* C24 *)

\* The call supplies a body to an operation that declares content types,
\* and a request was sent.
SentWithBody ==
    /\ Invoked /\ requests # <<>>
    /\ Called.requestBody # <<>>
    /\ Called.requestBody[1].content # <<>>
    /\ Called.requestBody[1].content[1] # <<>>
    /\ Lookup(call.args, "body").t # "undefined"

\* The Content-Type header parameters the call supplies.
ContentTypeParameters ==
    SelectSeq(SuppliedIn("header"), LAMBDA p : p.name \in {"Content-Type", "content-type"})

\* The content type the body is to be encoded for: the header supplied, else
\* the primary type of the catalog.
ExpectedContentType ==
    IF ContentTypeParameters # <<>>
    THEN Concat(Coerced(ContentTypeParameters[1]).v)
    ELSE ExpectedPrimary(SeqToSet(ContentKeys(Called.requestBody[1].content[1])))

\* C24: the request of a call with a body is built for the Content-Type
\* header supplied or else for the primary content type of the catalog: as
\* form data for multipart/form-data, else with that Content-Type header.
C24_EffectiveContentTypeIsPrimary ==
    SentWithBody =>
        IF ExpectedContentType = "multipart/form-data"
        THEN requests[1].data.t = "formdata"
        ELSE /\ requests[1].data.t # "formdata"
             /\ MapHas(requests[1].headers, "Content-Type")
             /\ Concat(MapGet(requests[1].headers, "Content-Type")) = ExpectedContentType

-----------------------------------------------------------------------------
(* C25 *)

\* The request carries a multipart body: the content type determined for
\* the call was multipart/form-data.
SentMultipart == Invoked /\ requests # <<>> /\ requests[1].data.t = "formdata"

\* The entries of a header map whose name spells Content-Type.
ContentTypeHeaders(headers) ==
    { headers[i] : i \in { j \in DOMAIN headers :
                              headers[j].key \in SeqToSet(ContentTypeSpellings) } }

\* C25: a request with a multipart body carries the content type of the
\* form data, with its boundary, and no header whose name spells
\* Content-Type and whose value is application/json.
C25_MultipartReplacesJsonContentType ==
    SentMultipart =>
        /\ \E h \in ContentTypeHeaders(requests[1].headers) :
              h.value = FormDataHeaders[1].value
        /\ \A h \in ContentTypeHeaders(requests[1].headers) :
              Concat(h.value) # "application/json"

-----------------------------------------------------------------------------
(* C26 *)

\* The properties of the multipart body schema of the operation called, as
\* the schema resolver sees them: through every reference.
ResolverProperties ==
    LET node == Dereferenced(schema,
                    ContentAt(Called.requestBody[1].content[1], "multipart/form-data")[1].schema[1],
                    {})
    IN  IF node # <<>> /\ node[1].properties # <<>> THEN node[1].properties[1] ELSE <<>>

\* The key is a file-upload field under the detection rule of the resolver.
ResolverFile(key) ==
    /\ PropHas(ResolverProperties, key)
    /\ isFileUploadSchema(schema, PropGet(ResolverProperties, key)) = "true"

\* The call failed with an error of the file branch of the assembly.
IsFileError(o) ==
    /\ o.kind = "threw" /\ o.message # <<>>
    /\ o.message[1] \in {"File not found: ", "Path is not a file: ",
                          "File path must be a string, got: "}

\* The entry of the body can be what the file error speaks of.
BlamedBy(e, message) ==
    IF message[1] = "File path must be a string, got: "
    THEN \/ e.value.t \notin {"string", "array"}
         \/ e.value.t = "array" /\ \E k \in DOMAIN e.value.v : e.value.v[k].t # "string"
    ELSE \/ e.value = String(Tail(message))
         \/ e.value.t = "array" /\ \E k \in DOMAIN e.value.v : e.value.v[k] = String(Tail(message))

\* C26: in the request of a multipart call, the parts of a key are file
\* parts exactly when the resolver's rule detects the declared schema of the
\* key as a file-upload field; and a call that fails with an error of the
\* file branch has a body key that the rule detects and the error fits.
C26_FileFieldsAsTheResolverDetects ==
    Uploading =>
        /\ (requests # <<>> /\ requests[1].data.t = "formdata") =>
              \A k \in DOMAIN requests[1].data.v :
                  requests[1].data.v[k].isFile <=> ResolverFile(requests[1].data.v[k].name)
        /\ IsFileError(outcome) =>
              \E k \in DOMAIN Lookup(call.args, "body").v :
                  /\ ResolverFile(Lookup(call.args, "body").v[k].key)
                  /\ BlamedBy(Lookup(call.args, "body").v[k], outcome.message)

-----------------------------------------------------------------------------
(* C27 *)

\* The call failed with InvalidFilePathType for a value of this typeof.
IsInvalidFilePathType(o, val) ==
    /\ o.kind = "threw"
    /\ o.message = <<"File path must be a string, got: ", TypeOf(val)>>

\* A number, a boolean or an object that is not an array (and not null).
NeitherStringNorArray(val) == val.t \in {"number", "boolean", "object"}

\* C27: for a file field of a multipart body (the fields before it, and the
\* elements before it in its array, having been assembled): a number, a
\* boolean or an object as value, and an array element that is not a string,
\* fail with InvalidFilePathType, and no request is sent.
C27_FilePathsMustBeStrings ==
    Uploading =>
        \A i \in DOMAIN Lookup(call.args, "body").v :
            LET e == Lookup(call.args, "body").v[i]
            IN  (DeclaredFile(e.key)
                 /\ \A j \in 1..(i - 1) : Passes(Lookup(call.args, "body").v[j])) =>
                  /\ NeitherStringNorArray(e.value) =>
                        IsInvalidFilePathType(outcome, e.value) /\ requests = <<>>
                  /\ e.value.t = "array" =>
                        \A k \in DOMAIN e.value.v :
                            (/\ e.value.v[k].t # "string"
                             /\ \A m \in 1..(k - 1) :
                                   e.value.v[m].t = "string" /\ At(e.value.v[m].v) = "file") =>
                               IsInvalidFilePathType(outcome, e.value.v[k]) /\ requests = <<>>

-----------------------------------------------------------------------------
(* C28 *)

\* The parameter with its schema written inline: the definition in place of
\* a reference to it, a plain string in place of no schema.
InlineParameter(p) ==
    IF p.schema = <<>> THEN [p EXCEPT !.schema = <<StrSchema>>]
    ELSE IF Dereferenced(schema, p.schema[1], {}) # <<>>
    THEN [p EXCEPT !.schema = Dereferenced(schema, p.schema[1], {})]
    ELSE p

\* The catalog entry of the operation called, every parameter inline.
CalledInline ==
    [Called EXCEPT !.parameters = [k \in DOMAIN Called.parameters |->
                                      InlineParameter(Called.parameters[k])]]

\* What the call does on the operation with every parameter inline.
InlineRun == Execute(schema, baseUrl, fs, remote, CalledInline, call.args)

\* C28: the call has the outcome and the request it has when the schema of
\* every parameter is written inline (the definition for a reference, a
\* plain string for a parameter with no schema).
C28_CoercionFollowsResolvedType ==
    Invoked => outcome = InlineRun.outcome /\ requests = InlineRun.sent

-----------------------------------------------------------------------------
(* The reload scenario: documents loaded one after another on the same
   APIClient and ToolGenerator, then one executeOperation call. *)

\* The state of the two instances before any document is loaded.
NoDocument == [hasComponents |-> FALSE, schemas |-> <<>>, servers |-> <<>>, paths |-> <<>>]

\* The documents loaded: they share some operation ids and differ in others.
LoadDocs ==
    PathsDocs \cup {ContentDoc(<<"application/json">>)}

\* Calls of operations of the documents loaded.
LoadCalls ==
    { Call("getProfile", <<>>), Call("get__user_settings", <<>>),
      Call("get__user_profile", <<>>),
      Call("createItem", <<Entry("body", Object(<<Entry("name", Str("abc"))>>))>>) }

InitLoads ==
    /\ schema = NoDocument
    /\ options = WithoutBaseUrl
    /\ call \in LoadCalls
    /\ remote = Response(200, <<"OK">>, Null)
    /\ pc = "created"
    /\ baseUrl = <<>>
    /\ operations = <<>>
    /\ fs = Files
    /\ requests = <<>>
    /\ outcome = NoOutcome
    /\ frames = <<>>
    /\ GeneratorIdle

\* OpenAPIMCPServer.start on the document doc: apiClient.initialize(schema),
\* then toolGenerator.generateTools(schema), on the instances as they are.
Load(doc) ==
    /\ pc \in {"created", "ready"}
    /\ schema' = doc
    /\ LET r == initialize(options, doc, operations, baseUrl)
       IN  /\ baseUrl' = r.baseUrl
           /\ operations' = r.operations
           /\ pc' = IF r.thrown THEN "initFailed" ELSE "ready"
           /\ outcome' = IF r.thrown THEN [NoOutcome EXCEPT !.kind = "threw", !.message = r.message]
                         ELSE outcome
           /\ IF r.thrown
              THEN UNCHANGED <<tools, genThrown, toolMetadata, resolutionStack>>
              ELSE StoreGenerated(generateTools(doc))
    /\ UNCHANGED <<options, call, fs, remote, requests, frames>>

LoadDocument == \E doc \in LoadDocs : Load(doc)

NextLoads == LoadDocument \/ ExecuteOperation

SpecLoads == InitLoads /\ [][NextLoads]_vars

-----------------------------------------------------------------------------
(* C29 *)

\* A document has been loaded on both instances.
Loaded == pc \in {"ready", "done"} /\ schema # NoDocument

\* The names of the tools the generator holds.
ToolNames == { tools[i].name : i \in DOMAIN tools }

\* C29: once documents have been loaded, the operation ids the invoker can
\* execute are the names of the tools generated from the document loaded
\* last, and the tools held are the tools a generation from that document
\* gives.
C29_CatalogIsTheLastDocument ==
    Loaded => /\ MapKeys(operations) = ToolNames
              /\ tools = generateTools(schema).tools

-----------------------------------------------------------------------------
(* C30 *)

\* C30: in the request of a call, the value routed for a supplied parameter
\* of type array is an array; a string whose JSON parse gives a number, a
\* string, a boolean or null is not passed on as that value.
C30_ArrayParametersRouteArrays ==
    (Invoked /\ requests # <<>>) =>
        \A p \in Supplied({"array"}) :
            MapHas(requests[1].params, p.name) =>
                MapGet(requests[1].params, p.name).t = "array"

=============================================================================
